---- MODULE Spec2Model ----
(***************************************************************************)
(* Parameter conversion engine of the SuperSlicer/PrusaSlicer to           *)
(* OrcaSlicer profile converter: convertParams and calculatePrintParams    *)
(* (src/src/conversion.ts) with the value utilities they use.              *)
(*                                                                         *)
(* JavaScript values are records tagged with their type.  A string is a    *)
(* sequence of tokens; a token is one character, or a literal word that    *)
(* the code only compares or copies ("nil", "KEEP", ...).                  *)
(***************************************************************************)
EXTENDS Integers, Sequences, FiniteSets, TLC

VARIABLES sourceIni, status, newHash, ret, call, answers, exited, args,
          inputFiles, index, convertedFiles, outputFiles, asked

\* the state of a run of the main loop
runVars == <<inputFiles, index, convertedFiles, outputFiles, asked>>

vars == <<sourceIni, status, newHash, ret, call, answers, exited, args,
          inputFiles, index, convertedFiles, outputFiles, asked>>

\* outside the main loop: no input file, nothing converted or written
NoRun ==
  /\ inputFiles = << >>
  /\ index = 0
  /\ convertedFiles = << >>
  /\ outputFiles = << >>
  /\ asked = << >>

(* ------------------------------ JS values ------------------------------ *)

Undefined == [type |-> "undefined"]

Str(s) == [type |-> "string", val |-> s]

Bool(b) == [type |-> "boolean", val |-> b]

Arr(a) == [type |-> "array", val |-> a]

EmptyStr == Str(<< >>)

NIL == Str(<<"nil">>)

KEEP == Str(<<"KEEP">>)

DISCARD == Str(<<"DISCARD">>)

\* a number value; val is NaN or an exact decimal (see Numbers below)
Number(n) == [type |-> "number", val |-> n]

\* JavaScript truthiness: undefined, '', false, 0 and NaN are falsy.
Truthy(v) ==
  CASE v.type = "undefined" -> FALSE
    [] v.type = "string" -> v.val # << >>
    [] v.type = "boolean" -> v.val
    [] v.type = "number" -> ~v.val.nan /\ v.val.num # 0
    [] OTHER -> TRUE

\* a || b
OrElse(a, b) == IF Truthy(a) THEN a ELSE b

(* ------------------------------- bounds -------------------------------- *)

\* longest source string, in tokens
MaxLen == 3

\* cap of the count of KEEP/DISCARD answers given for one slot
MaxAnswers == 2

\* most decimal places of a quotient
MaxFraction == 4


(* --------------------------- value utilities --------------------------- *)

Range(s) == {s[i] : i \in 1..Len(s)}

Whitespace == {" ", "\n", "\t", "\r"}

\* String.prototype.split(d) for a one-character delimiter d
RECURSIVE Split(_, _)
Split(s, d) ==
  IF d \in Range(s)
    THEN LET i == CHOOSE k \in 1..Len(s) :
                    s[k] = d /\ \A j \in 1..(k - 1) : s[j] # d
         IN <<SubSeq(s, 1, i - 1)>> \o Split(SubSeq(s, i + 1, Len(s)), d)
    ELSE <<s>>

\* String.prototype.trim()
RECURSIVE Trim(_)
Trim(s) ==
  IF s = << >> THEN s
  ELSE IF Head(s) \in Whitespace THEN Trim(Tail(s))
  ELSE IF s[Len(s)] \in Whitespace THEN Trim(SubSeq(s, 1, Len(s) - 1))
  ELSE s

\* multivalueToArray that leaves out the .map(s => s.trim())
MultivalueToArray_NoTrim(inputString) ==
  IF ~Truthy(inputString) THEN << >>
  ELSE LET delimiter == IF "," \in Range(inputString.val) THEN "," ELSE ";"
           parts == Split(inputString.val, delimiter)
       IN [i \in DOMAIN parts |-> Str(parts[i])]

\* multivalueToArray: split on ',' if one is present, else on ';', and trim
\* every element; [] for an empty or undefined input.
MultivalueToArray(inputString) ==
  IF ~Truthy(inputString) THEN << >>
  ELSE LET delimiter == IF "," \in Range(inputString.val) THEN "," ELSE ";"
           parts == Split(inputString.val, delimiter)
       IN [i \in 1..Len(parts) |-> Str(Trim(parts[i]))]

\* str.replace(/<pat>/g, rep) for a two-character pattern: matches are taken
\* left to right and do not overlap.
RECURSIVE ReplaceAll(_, _, _)
ReplaceAll(s, pat, rep) ==
  IF Len(s) < 2 THEN s
  ELSE IF SubSeq(s, 1, 2) = pat
    THEN <<rep>> \o ReplaceAll(SubSeq(s, 3, Len(s)), pat, rep)
  ELSE <<Head(s)>> \o ReplaceAll(Tail(s), pat, rep)

\* unbackslash: six replacements, each on the result of the one before
Unbackslash(str) ==
  LET s1 == ReplaceAll(str.val, <<"\\", "n">>, "\n")
      s2 == ReplaceAll(s1, <<"\\", "t">>, "\t")
      s3 == ReplaceAll(s2, <<"\\", "r">>, "\r")
      s4 == ReplaceAll(s3, <<"\\", "\\">>, "\\")
      s5 == ReplaceAll(s4, <<"\\", "\"">>, "\"")
      s6 == ReplaceAll(s5, <<"\\", "'">>, "'")
  IN Str(s6)

\* array[0], undefined for an empty array
First(array) == IF Len(array) >= 1 THEN array[1] ELSE Undefined

(* Numbers.  A number is NaN or an exact decimal num / 10^scale, kept    *)
(* normalised (no trailing zero in the fraction).  The profiles of the    *)
(* model use values on which IEEE-754 double arithmetic is exact.         *)

Digits == {"0", "1", "2", "3", "4", "5", "6", "7", "8", "9"}

DigitVal(c) ==
  CASE c = "0" -> 0 [] c = "1" -> 1 [] c = "2" -> 2 [] c = "3" -> 3
    [] c = "4" -> 4 [] c = "5" -> 5 [] c = "6" -> 6 [] c = "7" -> 7
    [] c = "8" -> 8 [] c = "9" -> 9

DigitTok(d) == <<"0", "1", "2", "3", "4", "5", "6", "7", "8", "9">>[d + 1]

RECURSIVE Pow10(_)
Pow10(k) == IF k = 0 THEN 1 ELSE 10 * Pow10(k - 1)

NaN == [nan |-> TRUE, num |-> 0, scale |-> 0]

RECURSIVE Num(_, _)
Num(num, scale) ==
  IF scale > 0 /\ num % 10 = 0 THEN Num(num \div 10, scale - 1)
  ELSE [nan |-> FALSE, num |-> num, scale |-> scale]

RECURSIVE DigitsPrefixLen(_)
DigitsPrefixLen(s) ==
  IF s # << >> /\ Head(s) \in Digits THEN 1 + DigitsPrefixLen(Tail(s)) ELSE 0

RECURSIVE ToNat(_)
ToNat(digs) ==
  IF digs = << >> THEN 0
  ELSE 10 * ToNat(SubSeq(digs, 1, Len(digs) - 1)) + DigitVal(digs[Len(digs)])

RECURSIVE NatToTokens(_)
NatToTokens(n) ==
  IF n < 10 THEN <<DigitTok(n)>>
  ELSE NatToTokens(n \div 10) \o <<DigitTok(n % 10)>>

RECURSIVE DropWhitespace(_)
DropWhitespace(s) ==
  IF s # << >> /\ Head(s) \in Whitespace THEN DropWhitespace(Tail(s)) ELSE s

\* the digits after a '.' that follows the ni integer digits of body
FractionLen(body, ni) ==
  IF ni < Len(body) /\ body[ni + 1] = "."
    THEN DigitsPrefixLen(SubSeq(body, ni + 2, Len(body))) ELSE 0

\* the number written by ni integer digits and nf fraction digits of body
ParseDigits(body, ni, nf) ==
  IF ni + nf = 0 THEN NaN
  ELSE Num(ToNat(SubSeq(body, 1, ni)) * Pow10(nf)
             + ToNat(SubSeq(body, ni + 2, ni + 1 + nf)), nf)

ParseIntegerPart(body, ni) == ParseDigits(body, ni, FractionLen(body, ni))

ParseUnsigned(body) == ParseIntegerPart(body, DigitsPrefixLen(body))

Negate(n) == IF n.nan THEN NaN ELSE [n EXCEPT !.num = 0 - n.num]

\* an optional sign, then the unsigned number
ParseSigned(s0) ==
  IF s0 # << >> /\ Head(s0) = "-" THEN Negate(ParseUnsigned(Tail(s0)))
  ELSE IF s0 # << >> /\ Head(s0) = "+" THEN ParseUnsigned(Tail(s0))
  ELSE ParseUnsigned(s0)

\* parseFloat: the longest numeric prefix (sign, digits, '.', digits) after
\* leading whitespace; NaN when it holds no digit.
ParseFloat(v) ==
  IF v.type # "string" THEN NaN ELSE ParseSigned(DropWhitespace(v.val))

Abs(i) == IF i < 0 THEN 0 - i ELSE i

RECURSIVE Pad(_, _)
Pad(toks, width) == IF Len(toks) >= width THEN toks ELSE Pad(<<"0">> \o toks, width)

\* String(number)
NumToStr(n) ==
  IF n.nan THEN Str(<<"NaN">>)
  ELSE LET mag == Abs(n.num)
           ip == mag \div Pow10(n.scale)
           fp == mag % Pow10(n.scale)
       IN Str((IF n.num < 0 THEN <<"-">> ELSE << >>)
              \o NatToTokens(ip)
              \o (IF n.scale > 0 THEN <<".">> \o Pad(NatToTokens(fp), n.scale)
                  ELSE << >>))

Mul(a, b) ==
  IF a.nan \/ b.nan THEN NaN ELSE Num(a.num * b.num, a.scale + b.scale)

DivBy100(a) == IF a.nan THEN NaN ELSE Num(a.num, a.scale + 2)

\* a > 0 (false for NaN)
Positive(a) == ~a.nan /\ a.num > 0

\* Number.prototype.toFixed(1): the nearest tenth, a tie going up in magnitude
ToFixed1(n) ==
  IF n.nan THEN Str(<<"NaN">>)
  ELSE LET mag == Abs(n.num) * 10
           q == mag \div Pow10(n.scale)
           r == mag % Pow10(n.scale)
           t == IF 2 * r >= Pow10(n.scale) THEN q + 1 ELSE q
       IN Str((IF n.num < 0 THEN <<"-">> ELSE << >>)
              \o NatToTokens(t \div 10) \o <<".", DigitTok(t % 10)>>)

\* /^[+-]?\d+(\.\d+)?$/ on the tokens of s
MatchesDecimal(s) ==
  LET body == IF s # << >> /\ Head(s) \in {"+", "-"} THEN Tail(s) ELSE s
      ni == DigitsPrefixLen(body)
      rest == SubSeq(body, ni + 1, Len(body))
  IN /\ ni >= 1
     /\ \/ rest = << >>
        \/ /\ Head(rest) = "."
           /\ Len(rest) >= 2
           /\ DigitsPrefixLen(Tail(rest)) = Len(rest) - 1

\* isDecimal
IsDecimal(value) == Truthy(value) /\ value.type = "string" /\ MatchesDecimal(value.val)

\* isPercent
IsPercent(value) ==
  /\ Truthy(value)
  /\ value.type = "string"
  /\ value.val[Len(value.val)] = "%"
  /\ MatchesDecimal(SubSeq(value.val, 1, Len(value.val) - 1))

\* removePercent
RemovePercent(value) ==
  IF ~Truthy(value) THEN EmptyStr
  ELSE IF value.val[Len(value.val)] = "%"
    THEN Str(SubSeq(value.val, 1, Len(value.val) - 1))
  ELSE value

\* String(value) of a string or a number
StringOf(value) ==
  IF value.type = "number" THEN NumToStr(value.val) ELSE value

\* typeof mmComparator === 'number' ? mmComparator
\*   : parseFloat(String(mmComparator))
ComparatorValue(mmComparator) ==
  IF mmComparator.type = "number" THEN mmComparator.val
  ELSE ParseFloat(StringOf(mmComparator))

\* percentToMm without its test that the comparator is no percentage
PercentToMm_PercentBase(mmComparator, percentParam) ==
  IF ~Truthy(mmComparator) \/ ~Truthy(percentParam) THEN Undefined
  ELSE IF ~IsPercent(percentParam) THEN percentParam
  ELSE NumToStr(Mul(ComparatorValue(mmComparator),
                    DivBy100(ParseFloat(RemovePercent(percentParam)))))

\* percentToMm that multiplies by the percentage without dividing by 100
PercentToMm_WholePercent(mmComparator, percentParam) ==
  IF ~Truthy(mmComparator) \/ ~Truthy(percentParam) THEN Undefined
  ELSE IF ~IsPercent(percentParam) THEN percentParam
  ELSE IF IsPercent(StringOf(mmComparator)) THEN Undefined
  ELSE NumToStr(Mul(ComparatorValue(mmComparator),
                    ParseFloat(RemovePercent(percentParam))))

\* percentToMm(mmComparator, percentParam)
PercentToMm(mmComparator, percentParam) ==
  IF ~Truthy(mmComparator) \/ ~Truthy(percentParam) THEN Undefined
  ELSE IF ~IsPercent(percentParam) THEN percentParam
  ELSE IF IsPercent(StringOf(mmComparator)) THEN Undefined
  ELSE NumToStr(Mul(ComparatorValue(mmComparator),
                    DivBy100(ParseFloat(RemovePercent(percentParam)))))

\* a / b for the numbers of the model, whose quotient has at most
\* MaxFraction decimal places; NaN when an operand is NaN
Div(a, b) ==
  IF a.nan \/ b.nan THEN NaN
  ELSE Num((a.num * Pow10(b.scale + MaxFraction))
             \div (b.num * Pow10(a.scale)), MaxFraction)

\* `${n}%`
PercentString(n) == Str(NumToStr(n).val \o <<"%">>)

\* mmToPercent that tests the comparator before the parameter
MmToPercent_ComparatorFirst(mmComparator, mmParam) ==
  IF ~Truthy(mmComparator) \/ ~Truthy(mmParam) THEN Undefined
  ELSE IF IsPercent(StringOf(mmComparator)) THEN Undefined
  ELSE IF IsPercent(mmParam) THEN mmParam
  ELSE IF ComparatorValue(mmComparator) = Num(0, 0) THEN Undefined
  ELSE PercentString(Mul(Div(ParseFloat(mmParam),
                             ComparatorValue(mmComparator)), Num(100, 0)))

\* mmToPercent(mmComparator, mmParam)
MmToPercent(mmComparator, mmParam) ==
  IF ~Truthy(mmComparator) \/ ~Truthy(mmParam) THEN Undefined
  ELSE IF IsPercent(mmParam) THEN mmParam
  ELSE IF IsPercent(StringOf(mmComparator)) THEN Undefined
  ELSE IF ComparatorValue(mmComparator) = Num(0, 0) THEN Undefined
  ELSE PercentString(Mul(Div(ParseFloat(mmParam),
                             ComparatorValue(mmComparator)), Num(100, 0)))

\* formatted.replace(/\.?0+$/, ''): the leftmost suffix that is an optional
\* '.' followed by zeros only is cut off.
StripZeros(s) ==
  LET zerosFrom(i) == i <= Len(s) /\ \A j \in i..Len(s) : s[j] = "0"
      hits == {i \in 1..Len(s) :
                 zerosFrom(i) \/ (s[i] = "." /\ zerosFrom(i + 1))}
  IN IF hits = {} THEN s
     ELSE SubSeq(s, 1, (CHOOSE i \in hits : \A j \in hits : i <= j) - 1)

\* evaluatePrintOrder with the results of its second and third rows exchanged
EvaluatePrintOrder_RowsExchanged(externalPerimetersFirst, infillFirst) ==
  IF ~Truthy(externalPerimetersFirst) /\ ~Truthy(infillFirst)
    THEN Str(<<"inner wall/outer wall/infill">>)
  ELSE IF Truthy(externalPerimetersFirst) /\ ~Truthy(infillFirst)
    THEN Str(<<"infill/inner wall/outer wall">>)
  ELSE IF ~Truthy(externalPerimetersFirst) /\ Truthy(infillFirst)
    THEN Str(<<"outer wall/inner wall/infill">>)
  ELSE Str(<<"infill/outer wall/inner wall">>)

\* evaluatePrintOrder
EvaluatePrintOrder(externalPerimetersFirst, infillFirst) ==
  IF ~Truthy(externalPerimetersFirst) /\ ~Truthy(infillFirst)
    THEN Str(<<"inner wall/outer wall/infill">>)
  ELSE IF Truthy(externalPerimetersFirst) /\ ~Truthy(infillFirst)
    THEN Str(<<"outer wall/inner wall/infill">>)
  ELSE IF ~Truthy(externalPerimetersFirst) /\ Truthy(infillFirst)
    THEN Str(<<"infill/inner wall/outer wall">>)
  ELSE IF Truthy(externalPerimetersFirst) /\ Truthy(infillFirst)
    THEN Str(<<"infill/outer wall/inner wall">>)
  ELSE Str(<<"inner wall/outer wall/infill">>)

\* evaluateIroningType without its test of the flag
EvaluateIroningType_IgnoresFlag(ironing, ironingType) ==
  OrElse(ironingType, Str(<<"no ironing">>))

\* evaluateIroningType
EvaluateIroningType(ironing, ironingType) ==
  IF Truthy(ironing) THEN OrElse(ironingType, Str(<<"no ironing">>))
  ELSE Str(<<"no ironing">>)

(* ---------------------------- lookup tables ---------------------------- *)

\* multivalueParams entries registered 'single'
SingleParams ==
  {"max_layer_height", "min_layer_height", "deretract_speed",
   "default_filament_profile", "nozzle_diameter", "retract_before_wipe",
   "retract_length_toolchange", "retract_restart_extra_toolchange",
   "retract_restart_extra", "retract_layer_change", "retract_length",
   "retract_lift", "retract_before_travel", "retract_speed",
   "extruder_offset", "retract_lift_above", "retract_lift_below", "wipe"}

\* multivalueParams entries registered 'array'
ArrayParams ==
  {"machine_max_acceleration_e", "machine_max_acceleration_extruding",
   "machine_max_acceleration_retracting", "machine_max_acceleration_travel",
   "machine_max_acceleration_x", "machine_max_acceleration_y",
   "machine_max_acceleration_z", "machine_max_feedrate_e",
   "machine_max_feedrate_x", "machine_max_feedrate_y",
   "machine_max_feedrate_z", "machine_max_jerk_e", "machine_max_jerk_x",
   "machine_max_jerk_y", "machine_max_jerk_z", "machine_min_extruding_rate",
   "machine_min_travel_rate", "bed_shape", "thumbnails"}

\* multivalueParams[parameter]
MultivalueParams(parameter) ==
  IF parameter \in SingleParams THEN Str(<<"single">>)
  ELSE IF parameter \in ArrayParams THEN Str(<<"array">>)
  ELSE Undefined

\* a speed sequence with top_solid_infill_speed ahead of the parameter that
\* writes its base
SpeedSequence_TopBeforeSolid ==
  <<"perimeter_speed", "external_perimeter_speed", "top_solid_infill_speed",
    "solid_infill_speed", "infill_speed", "small_perimeter_speed",
    "gap_fill_speed", "support_material_speed",
    "support_material_interface_speed", "bridge_speed", "first_layer_speed",
    "first_layer_infill_speed">>

\* speedSequence
SpeedSequence ==
  <<"perimeter_speed", "external_perimeter_speed", "solid_infill_speed",
    "infill_speed", "small_perimeter_speed", "top_solid_infill_speed",
    "gap_fill_speed", "support_material_speed",
    "support_material_interface_speed", "bridge_speed", "first_layer_speed",
    "first_layer_infill_speed">>

\* speedParams[parameter]
SpeedParams(parameter) ==
  CASE parameter = "perimeter_speed" -> "inner_wall_speed"
    [] parameter = "external_perimeter_speed" -> "outer_wall_speed"
    [] parameter = "small_perimeter_speed" -> "small_perimeter_speed"
    [] parameter = "solid_infill_speed" -> "internal_solid_infill_speed"
    [] parameter = "infill_speed" -> "sparse_infill_speed"
    [] parameter = "top_solid_infill_speed" -> "top_surface_speed"
    [] parameter = "gap_fill_speed" -> "gap_infill_speed"
    [] parameter = "support_material_speed" -> "support_speed"
    [] parameter = "support_material_interface_speed" -> "support_interface_speed"
    [] parameter = "bridge_speed" -> "bridge_speed"
    [] parameter = "first_layer_speed" -> "initial_layer_speed"
    [] parameter = "first_layer_infill_speed" -> "initial_layer_infill_speed"

\* filamentTypes[key]
FilamentTypes(key) ==
  CASE key = Str(<<"PET">>) -> Str(<<"PETG">>)
    [] key = Str(<<"FLEX">>) -> Str(<<"TPU">>)
    [] key = Str(<<"NYLON">>) -> Str(<<"PA">>)
    [] OTHER -> Undefined

\* defaultMVS[key]
DefaultMVS(key) ==
  CASE key = Str(<<"PLA">>) -> Str(<<"1", "5">>)
    [] key = Str(<<"PET">>) -> Str(<<"1", "0">>)
    [] key \in {Str(<<"ABS">>), Str(<<"ASA">>), Str(<<"NYLON">>),
                Str(<<"PVA">>), Str(<<"PC">>)}
         -> Str(<<"1", "2">>)
    [] key = Str(<<"FLEX">>) -> Str(<<"3", ".", "2">>)
    [] key \in {Str(<<"PSU">>), Str(<<"HIPS">>), Str(<<"EDGE">>),
                Str(<<"NGEN">>), Str(<<"PP">>), Str(<<"PEI">>),
                Str(<<"PEEK">>), Str(<<"PEKK">>), Str(<<"POM">>),
                Str(<<"PVDF">>), Str(<<"SCAFF">>)}
         -> Str(<<"8">>)
    [] OTHER -> Undefined

\* supportStyles[key]: the pair [supportType, supportStyle]
SupportStyles(key) ==
  CASE key = Str(<<"grid">>) -> Arr(<<"normal", "grid">>)
    [] key = Str(<<"snug">>) -> Arr(<<"normal", "snug">>)
    [] key = Str(<<"tree">>) -> Arr(<<"tree", "default">>)
    [] key = Str(<<"organic">>) -> Arr(<<"tree", "organic">>)
    [] OTHER -> Undefined

\* the output keys of a fan-out entry of the parameter map
BedTemperatureKeys == <<"hot_plate_temp", "cool_plate_temp">>

\* parameterMap[iniType] exists
HasTypeMap(iniType) ==
  iniType \in {Str(<<"print">>), Str(<<"filament">>), Str(<<"printer">>),
               Str(<<"physical_printer">>)}

\* parameterMap[iniType][parameter]: one target key (a string), a list of
\* target keys (fan-out), or undefined
ParameterMap(iniType, parameter) ==
  CASE iniType = Str(<<"print">>)
         /\ parameter \in {"layer_height", "external_perimeters_first",
                           "infill_first", "ironing", "ironing_type",
                           "compatible_printers_condition"}
         -> Str(<<parameter>>)
    [] iniType = Str(<<"filament">>) /\ parameter = "bed_temperature"
         -> Arr(BedTemperatureKeys)
    [] iniType = Str(<<"filament">>)
         /\ parameter \in {"compatible_printers_condition",
                           "compatible_prints_condition"}
         -> Str(<<parameter>>)
    [] iniType = Str(<<"filament">>) /\ parameter = "temperature"
         -> Str(<<"nozzle_temperature">>)
    [] iniType = Str(<<"printer">>) /\ parameter = "nozzle_diameter"
         -> Str(<<"nozzle_diameter">>)
    [] iniType = Str(<<"printer">>) /\ parameter = "bed_shape"
         -> Str(<<"printable_area">>)
    [] iniType = Str(<<"printer">>) /\ parameter = "default_filament_profile"
         -> Str(<<"default_filament_profile">>)
    [] OTHER -> Undefined

\* Object.keys(parameterMap): the profile types, in the order of the map
IniTypeOrder == <<"print", "filament", "printer", "physical_printer">>

\* parameters of the print, filament and printer maps by which the tests of
\* detectIniType have each type recognised
PrintKeys ==
  <<"layer_height", "extrusion_width", "perimeter_speed", "infill_speed",
    "top_solid_layers", "bottom_solid_layers", "fill_density",
    "support_material", "seam_position", "perimeters", "first_layer_height",
    "travel_speed">>

FilamentKeys ==
  <<"filament_type", "temperature", "bed_temperature", "filament_diameter",
    "filament_density", "filament_cost", "filament_retract_length",
    "filament_retract_speed", "max_fan_speed", "min_fan_speed",
    "fan_always_on", "start_filament_gcode">>

PrinterKeys ==
  <<"nozzle_diameter", "gcode_flavor", "bed_shape", "max_print_height",
    "retract_length", "retract_speed", "start_gcode", "end_gcode",
    "layer_gcode", "machine_max_acceleration_x", "machine_max_acceleration_y",
    "machine_max_feedrate_x", "machine_max_feedrate_y">>

\* param in parameterMap[type]
InTypeMap(type, param) ==
  \/ ParameterMap(Str(<<type>>), param) # Undefined
  \/ type = "print" /\ param \in Range(PrintKeys)
  \/ type = "filament" /\ param \in Range(FilamentKeys)
  \/ type = "printer" /\ param \in Range(PrinterKeys)

(* ------------------------------ state space ---------------------------- *)

\* the source parameters the model reads
IniKeys ==
  {"compatible_printers_condition", "compatible_prints_condition",
   "external_perimeters_first", "infill_first", "ironing", "ironing_type",
   "bed_temperature", "layer_height", "nozzle_diameter", "bed_shape",
   "default_filament_profile",
   "test_param", "nonexistent", "default_speed",
   "enable_dynamic_overhang_speeds",
   "dynamic_overhang_speeds", "overhang_speed_0", "overhang_speed_1",
   "overhang_speed_2", "overhang_speed_3",
   "filament_type", "filament_max_volumetric_speed",
   "support_material_style", "support_material_auto", "extrusion_width",
   "profile_name", "temperature", "slowdown_below_layer_time"}
    \cup Range(SpeedSequence)

OverhangSpeedKeys ==
  <<"overhang_1_4_speed", "overhang_2_4_speed", "overhang_3_4_speed",
    "overhang_4_4_speed">>

\* the output keys convertParams and calculatePrintParams write
OutKeys ==
  Range(BedTemperatureKeys) \cup Range(OverhangSpeedKeys)
    \cup {SpeedParams(SpeedSequence[i]) : i \in 1..Len(SpeedSequence)}
    \cup {"enable_overhang_speed", "wall_infill_order", "ironing_type"}
    \cup {"layer_height", "external_perimeters_first", "infill_first",
          "ironing", "compatible_printers_condition",
          "compatible_prints_condition", "nozzle_diameter", "printable_area",
          "default_filament_profile", "support_type", "support_style",
          "nozzle_temperature", "print_settings_id", "filament_settings_id",
          "printer_settings_id", "name", "from", "is_custom_defined",
          "version", "nozzle_temperature_range_low",
          "nozzle_temperature_range_high", "slow_down_for_layer_cooling",
          "inherits"}

(* ------------------------------ convertParams -------------------------- *)

\* What one call leaves behind: its return value, the status and newHash
\* objects as it mutated them, the number of displayMenu invocations, the
\* options it offered, the collaborator's reply, and whether the process
\* exited inside displayMenu.
Result(r, st, hash, prompted, offered, reply, quit) ==
  [ret |-> r, status |-> st, newHash |-> hash, prompted |-> prompted,
   offered |-> offered, reply |-> reply, quit |-> quit]

Return(r, st, hash) == Result(r, st, hash, 0, << >>, Undefined, FALSE)

\* the <QUIT> menu entry
QUIT == Str(<<"<QUIT>">>)

\* displayMenu(prompt, true, options): the selected entry is returned; the
\* added <QUIT> entry prints the summary and exits the process.
DisplayMenu(answer) == [quit |-> answer = QUIT, choice |-> answer]

\* the sticky-decision slot of a compatibility-condition parameter
SlotOf(parameter) ==
  IF parameter = "compatible_printers_condition"
    THEN "compatiblePrintersCondition"
    ELSE "compatiblePrintsCondition"

\* handleCompatibleCondition that never consults the stored decision
HandleCompatibleCondition_AlwaysAsks(parameter, newValue, st, hash, answer) ==
  LET slot == SlotOf(parameter)
      options == <<KEEP, DISCARD>>
      menu == DisplayMenu(answer)
      choice == menu.choice
  IN IF newValue = EmptyStr THEN Return(newValue, st, hash)
     ELSE IF menu.quit
       THEN Result(Undefined, st, hash, 1, options, choice, TRUE)
     ELSE IF choice.type = "string"
       THEN Result(IF choice = KEEP THEN newValue ELSE EmptyStr,
                   [st EXCEPT !.value[slot] = choice], hash, 1, options,
                   choice, FALSE)
     ELSE Result(EmptyStr, st, hash, 1, options, choice, FALSE)

\* handleCompatibleCondition whose two branches store the choice in the
\* printers slot
HandleCompatibleCondition_OneSlot(parameter, newValue, st, hash, answer) ==
  LET slot == SlotOf(parameter) IN
  IF st.value[slot] = DISCARD THEN Return(EmptyStr, st, hash)
  ELSE IF newValue = EmptyStr \/ st.value[slot] = KEEP
    THEN Return(newValue, st, hash)
  ELSE LET options == <<KEEP, DISCARD>>
           menu == DisplayMenu(answer)
           choice == menu.choice
       IN IF menu.quit
            THEN Result(Undefined, st, hash, 1, options, choice, TRUE)
          ELSE IF choice.type = "string"
            THEN Result(IF choice = KEEP THEN newValue ELSE EmptyStr,
                        [st EXCEPT !.value["compatiblePrintersCondition"] = choice],
                        hash, 1, options, choice, FALSE)
          ELSE Result(EmptyStr, st, hash, 1, options, choice, FALSE)

\* handleCompatibleCondition that returns the choice without storing it
HandleCompatibleCondition_NoStore(parameter, newValue, st, hash, answer) ==
  LET slot == SlotOf(parameter) IN
  IF st.value[slot] = DISCARD THEN Return(EmptyStr, st, hash)
  ELSE IF newValue = EmptyStr \/ st.value[slot] = KEEP
    THEN Return(newValue, st, hash)
  ELSE LET options == <<KEEP, DISCARD>>
           menu == DisplayMenu(answer)
           choice == menu.choice
       IN IF menu.quit
            THEN Result(Undefined, st, hash, 1, options, choice, TRUE)
          ELSE IF choice.type = "string"
            THEN Result(IF choice = KEEP THEN newValue ELSE EmptyStr,
                        st, hash, 1, options, choice, FALSE)
          ELSE Result(EmptyStr, st, hash, 1, options, choice, FALSE)

\* handleCompatibleCondition without the typeof choice === 'string' test
HandleCompatibleCondition_NoTypeTest(parameter, newValue, st, hash, answer) ==
  LET slot == SlotOf(parameter) IN
  IF st.value[slot] = DISCARD THEN Return(EmptyStr, st, hash)
  ELSE IF newValue = EmptyStr \/ st.value[slot] = KEEP
    THEN Return(newValue, st, hash)
  ELSE LET options == <<KEEP, DISCARD>>
           menu == DisplayMenu(answer)
           choice == menu.choice
       IN IF menu.quit
            THEN Result(Undefined, st, hash, 1, options, choice, TRUE)
          ELSE Result(IF choice = KEEP THEN newValue ELSE EmptyStr,
                      [st EXCEPT !.value[slot] = choice], hash, 1, options,
                      choice, FALSE)

\* handleCompatibleCondition, for either of its two parameters
HandleCompatibleCondition(parameter, newValue, st, hash, answer) ==
  LET slot == SlotOf(parameter) IN
  IF st.value[slot] = DISCARD THEN Return(EmptyStr, st, hash)
  ELSE IF newValue = EmptyStr \/ st.value[slot] = KEEP
    THEN Return(newValue, st, hash)
  ELSE LET options == <<KEEP, DISCARD>>
           menu == DisplayMenu(answer)
           choice == menu.choice
       IN IF menu.quit
            THEN Result(Undefined, st, hash, 1, options, choice, TRUE)
          ELSE IF choice.type = "string"
            THEN Result(IF choice = KEEP THEN newValue ELSE EmptyStr,
                        [st EXCEPT !.value[slot] = choice], hash, 1, options,
                        choice, FALSE)
          ELSE Result(EmptyStr, st, hash, 1, options, choice, FALSE)

\* typeof base === 'string' ? base : ''
StringOrEmpty(base) == IF base.type = "string" THEN base ELSE EmptyStr

\* the speed-family entries of specialCases
SpeedCase(parameter, newValue, srcIni, st, hash, defaultSpeed) ==
  LET super == st.slicerFlavor = Str(<<"SuperSlicer">>)
      prusa == st.slicerFlavor = Str(<<"PrusaSlicer">>)
      fromHash(key) ==
        IF super
          THEN OrElse(PercentToMm(StringOrEmpty(hash[key]), newValue), newValue)
          ELSE newValue
      fromDefault ==
        IF super THEN OrElse(PercentToMm(defaultSpeed, newValue), newValue)
        ELSE newValue
  IN CASE parameter \in {"external_perimeter_speed", "first_layer_speed"}
            -> OrElse(PercentToMm(srcIni["perimeter_speed"], newValue), newValue)
       [] parameter = "top_solid_infill_speed"
            -> OrElse(PercentToMm(StringOrEmpty(hash["internal_solid_infill_speed"]),
                                  newValue), newValue)
       [] parameter = "support_material_interface_speed"
            -> OrElse(PercentToMm(srcIni["support_material_speed"], newValue),
                      newValue)
       [] parameter = "first_layer_infill_speed"
            -> OrElse(PercentToMm(srcIni["infill_speed"],
                                  IF prusa THEN srcIni["first_layer_speed"]
                                  ELSE newValue), newValue)
       [] parameter = "solid_infill_speed"
            -> OrElse(PercentToMm(IF prusa THEN srcIni["infill_speed"]
                                  ELSE defaultSpeed, newValue), newValue)
       [] parameter \in {"perimeter_speed", "support_material_speed",
                         "bridge_speed"}
            -> fromDefault
       [] parameter = "infill_speed" -> fromHash("internal_solid_infill_speed")
       [] parameter \in {"small_perimeter_speed", "gap_fill_speed"}
            -> fromHash("sparse_infill_speed")

\* filament_max_volumetric_speed that keeps a value of zero
FilamentMaxVolumetricSpeed_KeepsZero(newValue, srcIni) ==
  IF ~ParseFloat(newValue).nan /\ ParseFloat(newValue).num >= 0
    THEN NumToStr(ParseFloat(newValue))
    ELSE OrElse(DefaultMVS(OrElse(srcIni["filament_type"], EmptyStr)),
                Str(<<"1", "5">>))

\* specialCases.filament_max_volumetric_speed
FilamentMaxVolumetricSpeed(newValue, srcIni) ==
  IF Positive(ParseFloat(newValue)) THEN NumToStr(ParseFloat(newValue))
  ELSE OrElse(DefaultMVS(OrElse(srcIni["filament_type"], EmptyStr)),
              Str(<<"1", "5">>))

\* `${supportType}(${genstyle})`
SupportType(supportType, auto) ==
  Str(<<supportType, "(", IF Truthy(auto) THEN "auto" ELSE "manual", ")">>)

\* specialCases.support_material_style: the two keys written to newHash
SupportMaterialStyle(newValue, srcIni, hash) ==
  IF Truthy(SupportStyles(newValue))
    THEN [hash EXCEPT !["support_type"] =
                        SupportType(SupportStyles(newValue).val[1],
                                    srcIni["support_material_auto"]),
                      !["support_style"] =
                        Str(<<SupportStyles(newValue).val[2]>>)]
    ELSE hash

\* specialCases[parameter](), or the value passed through
SpecialCases(parameter, newValue, srcIni, st, hash, answer, defaultSpeed) ==
  CASE parameter = "ironing_type"
         -> Return(newValue, [st EXCEPT !.ironingType = newValue], hash)
    [] parameter = "default_filament_profile"
         -> Return(Unbackslash(OrElse(First(MultivalueToArray(newValue)),
                                      EmptyStr)), st, hash)
    [] parameter \in {"compatible_printers_condition",
                      "compatible_prints_condition"}
         -> HandleCompatibleCondition(parameter, newValue, st, hash, answer)
    [] parameter \in Range(SpeedSequence)
         -> Return(SpeedCase(parameter, newValue, srcIni, st, hash, defaultSpeed),
                   st, hash)
    [] parameter = "filament_type"
         -> Return(OrElse(FilamentTypes(newValue), newValue), st, hash)
    [] parameter = "filament_max_volumetric_speed"
         -> Return(FilamentMaxVolumetricSpeed(newValue, srcIni), st, hash)
    [] parameter = "support_material_style"
         -> Return(EmptyStr, st, SupportMaterialStyle(newValue, srcIni, hash))
    [] parameter = "extrusion_width"
         -> Return(IF newValue = EmptyStr THEN Str(<<"0">>) ELSE newValue,
                   st, hash)
    [] OTHER -> Return(newValue, st, hash)

\* a fan-out that writes the first listed key only
FanOut_FirstKeyOnly(mapValue, newValue, hash) ==
  [key \in DOMAIN hash |->
     IF key = mapValue.val[1] THEN newValue ELSE hash[key]]

\* for (const key of mapValue) newHash[key] = newValue
FanOut(mapValue, newValue, hash) ==
  [key \in DOMAIN hash |->
     IF key \in Range(mapValue.val) THEN newValue ELSE hash[key]]

\* the three combination flags: the flag of status.toVar a parameter sets
FlagOf(parameter) ==
  CASE parameter = "external_perimeters_first" -> "externalPerimetersFirst"
    [] parameter = "infill_first" -> "infillFirst"
    [] parameter = "ironing" -> "ironing"

\* flag tracking in which every flag parameter also raises the ironing flag
TrackCombination_RaisesIroning(parameter, newValue, st) ==
  [st EXCEPT !.toVar[FlagOf(parameter)] = Bool(Truthy(newValue)),
             !.toVar["ironing"] = Bool(Truthy(newValue))]

\* flag tracking that also forgets the ironing type
TrackCombination_ForgetsType(parameter, newValue, st) ==
  [st EXCEPT !.toVar[FlagOf(parameter)] = Bool(Truthy(newValue)),
             !.ironingType = Undefined]

\* status.toVar.<flag> = newValue ? true : false
TrackCombination(parameter, newValue, st) ==
  [st EXCEPT !.toVar[FlagOf(parameter)] = Bool(Truthy(newValue))]

\* convertParams whose type check lets physical_printer through
Convert_PhysicalPrinterMapped(parameter, newValue, srcIni, st, hash, answer) ==
  LET defaultSpeed == IF st.slicerFlavor = Str(<<"SuperSlicer">>)
                        THEN srcIni["default_speed"] ELSE Undefined
      mapValue == ParameterMap(st.iniType, parameter)
  IN IF \/ ~Truthy(st.iniType)
        \/ st.iniType = Str(<<"unsupported">>)
       THEN Return(Undefined, st, hash)
     ELSE IF mapValue.type = "array"
       THEN Return(Undefined, st, FanOut(mapValue, newValue, hash))
     ELSE IF parameter \in {"external_perimeters_first", "infill_first", "ironing"}
       THEN Return(Undefined, TrackCombination(parameter, newValue, st), hash)
     ELSE SpecialCases(parameter, newValue, srcIni, st, hash, answer, defaultSpeed)

\* convertParams from the profile-type check on
Convert(parameter, newValue, srcIni, st, hash, answer) ==
  LET defaultSpeed == IF st.slicerFlavor = Str(<<"SuperSlicer">>)
                        THEN srcIni["default_speed"] ELSE Undefined
      mapValue == ParameterMap(st.iniType, parameter)
  IN IF \/ ~Truthy(st.iniType)
        \/ st.iniType = Str(<<"unsupported">>)
        \/ st.iniType = Str(<<"physical_printer">>)
       THEN Return(Undefined, st, hash)
     ELSE IF ~HasTypeMap(st.iniType) THEN Return(Undefined, st, hash)
     ELSE IF mapValue.type = "array"
       THEN Return(Undefined, st, FanOut(mapValue, newValue, hash))
     ELSE IF parameter \in {"external_perimeters_first", "infill_first", "ironing"}
       THEN Return(Undefined, TrackCombination(parameter, newValue, st), hash)
     ELSE SpecialCases(parameter, newValue, srcIni, st, hash, answer, defaultSpeed)

\* convertParams without the newValue === 'nil' check
ConvertParams_NoNilCheck(parameter, srcIni, st, hash, answer) ==
  IF ~Truthy(srcIni[parameter]) THEN Return(Undefined, st, hash)
  ELSE IF MultivalueParams(parameter) = Str(<<"array">>)
    THEN Return(Arr(MultivalueToArray(srcIni[parameter])), st, hash)
  ELSE Convert(parameter,
               IF MultivalueParams(parameter) = Str(<<"single">>)
                 THEN OrElse(First(MultivalueToArray(srcIni[parameter])),
                             EmptyStr)
                 ELSE srcIni[parameter],
               srcIni, st, hash, answer)

\* convertParams(parameter, file, sourceIni, status, newHash); file only
\* appears in the text of the prompt.
ConvertParams(parameter, srcIni, st, hash, answer) ==
  IF ~Truthy(srcIni[parameter]) THEN Return(Undefined, st, hash)
  ELSE IF srcIni[parameter] = NIL THEN Return(Undefined, st, hash)
  ELSE IF MultivalueParams(parameter) = Str(<<"array">>)
    THEN Return(Arr(MultivalueToArray(srcIni[parameter])), st, hash)
  ELSE Convert(parameter,
               IF MultivalueParams(parameter) = Str(<<"single">>)
                 THEN OrElse(First(MultivalueToArray(srcIni[parameter])),
                             EmptyStr)
                 ELSE srcIni[parameter],
               srcIni, st, hash, answer)

(* -------------------------- calculatePrintParams ----------------------- *)

\* one decimal place, without the replace that strips the zeros
FormatSpeed_KeepsZeros(newValue) == ToFixed1(ParseFloat(newValue))

\* one decimal place, then formatted.replace(/\.?0+$/, '')
FormatSpeed(newValue) == Str(StripZeros(ToFixed1(ParseFloat(newValue)).val))

\* the end of one iteration: what convertParams returned (r.ret) is written
\* under the renamed key when it is a non-empty string
SpeedStore(parameter, r) ==
  [status |-> r.status,
   newHash |->
     IF ~Truthy(r.ret) \/ r.ret.type # "string" THEN r.newHash
     ELSE [r.newHash EXCEPT ![SpeedParams(parameter)] =
             IF IsDecimal(r.ret) THEN FormatSpeed(r.ret) ELSE r.ret]]

\* one iteration of the loop on the objects as they are (state)
SpeedIteration(parameter, srcIni, state) ==
  IF ~Truthy(srcIni[parameter]) THEN state
  ELSE SpeedStore(parameter,
                  ConvertParams(parameter, srcIni, state.status,
                                state.newHash, Undefined))

\* for (const parameter of speedSequence) ..., its first n iterations
RECURSIVE SpeedLoop(_, _, _)
SpeedLoop(n, srcIni, state) ==
  IF n = 0 THEN state
  ELSE SpeedIteration(SpeedSequence[n], srcIni, SpeedLoop(n - 1, srcIni, state))

\* the four thresholds of the source, as an array of strings
OverhangSpeeds(srcIni, st) ==
  IF st.slicerFlavor = Str(<<"SuperSlicer">>)
    THEN LET parts == Split(OrElse(srcIni["dynamic_overhang_speeds"],
                                   EmptyStr).val, ",")
         IN [i \in 1..Len(parts) |-> Str(parts[i])]
    ELSE <<OrElse(srcIni["overhang_speed_0"], EmptyStr),
           OrElse(srcIni["overhang_speed_1"], EmptyStr),
           OrElse(srcIni["overhang_speed_2"], EmptyStr),
           OrElse(srcIni["overhang_speed_3"], EmptyStr)>>

\* speeds[i] of a JavaScript array (0-based), undefined past its end
At(array, i) == IF i + 1 \in 1..Len(array) THEN array[i + 1] ELSE Undefined

\* the dynamic-overhang part: enable_overhang_speed and, when enabled, the
\* four overhang_k_4_speed keys from speeds[3 - idx]
Overhangs(srcIni, st, hash) ==
  LET enableDynamicOverhangSpeeds ==
        Truthy(srcIni["enable_dynamic_overhang_speeds"])
      speeds == OverhangSpeeds(srcIni, st)
      idxOf(key) == (CHOOSE i \in 1..4 : OverhangSpeedKeys[i] = key) - 1
  IN [key \in DOMAIN hash |->
        IF key = "enable_overhang_speed"
          THEN IF enableDynamicOverhangSpeeds THEN Str(<<"1">>) ELSE Str(<<"0">>)
        ELSE IF enableDynamicOverhangSpeeds /\ key \in Range(OverhangSpeedKeys)
          THEN OrElse(At(speeds, 3 - idxOf(key)), EmptyStr)
        ELSE hash[key]]

\* calculatePrintParams after its speed loop, which left the objects as speeds
AfterSpeeds(srcIni, speeds) ==
  [status |-> speeds.status,
   newHash |->
     [Overhangs(srcIni, speeds.status, speeds.newHash)
        EXCEPT !["wall_infill_order"] =
                 EvaluatePrintOrder(speeds.status.toVar.externalPerimetersFirst,
                                    speeds.status.toVar.infillFirst),
               !["ironing_type"] =
                 EvaluateIroningType(speeds.status.toVar.ironing,
                                     speeds.status.ironingType)]]

\* calculatePrintParams(sourceIni, status, newHash)
CalculatePrintParams(srcIni, st, hash) ==
  AfterSpeeds(srcIni, SpeedLoop(Len(SpeedSequence), srcIni,
                                [status |-> st, newHash |-> hash]))

(* ----------------------------- detectIniType --------------------------- *)

\* the names a profile given to detectIniType may hold
DetectKeys ==
  Range(PrintKeys) \cup Range(FilamentKeys) \cup Range(PrinterKeys)
    \cup {"ini_type", "compatible_printers_condition", "random_param"}

\* typeCounts[type]: the keys of the profile that are keys of the type's map
TypeCount(type, profile) ==
  Cardinality({param \in DetectKeys :
                 profile[param] # Undefined /\ InTypeMap(type, param)})

\* Object.entries(typeCounts), in the order the types were inserted
TypeCounts(profile) ==
  [i \in 1..Len(IniTypeOrder) |->
     [type |-> IniTypeOrder[i], count |-> TypeCount(IniTypeOrder[i], profile)]]

\* the index of the first entry that no entry exceeds
FirstMax(entries) ==
  CHOOSE i \in 1..Len(entries) :
    /\ \A j \in 1..Len(entries) : entries[j].count <= entries[i].count
    /\ \A j \in 1..(i - 1) : entries[j].count < entries[i].count

\* entries.sort((a, b) => b[1] - a[1]): descending by count, and stable
RECURSIVE SortDescending(_)
SortDescending(entries) ==
  IF entries = << >> THEN << >>
  ELSE <<entries[FirstMax(entries)]>>
         \o SortDescending(SubSeq(entries, 1, FirstMax(entries) - 1)
                             \o SubSeq(entries, FirstMax(entries) + 1,
                                       Len(entries)))

\* detectIniType with a threshold of more than 10 matches
DetectIniType_MoreThanTen(profile) ==
  IF Truthy(profile["ini_type"]) THEN profile["ini_type"]
  ELSE IF ~\E i \in 1..Len(IniTypeOrder) : TypeCounts(profile)[i].count > 10
    THEN Undefined
  ELSE Str(<<SortDescending(TypeCounts(profile))[1].type>>)

\* detectIniType(sourceIni)
DetectIniType(profile) ==
  IF Truthy(profile["ini_type"]) THEN profile["ini_type"]
  ELSE IF ~\E i \in 1..Len(IniTypeOrder) : TypeCounts(profile)[i].count >= 10
    THEN Undefined
  ELSE Str(<<SortDescending(TypeCounts(profile))[1].type>>)

(* ------------------------- profiles of the model ----------------------- *)

Alphabet == {"a", ",", ";", " "}

RECURSIVE StringsOfLen(_)
StringsOfLen(n) ==
  IF n = 0 THEN {<< >>}
  ELSE {<<c>> \o s : c \in Alphabet, s \in StringsOfLen(n - 1)}

\* every string of at most MaxLen tokens over Alphabet, and 'nil'
MultiValues ==
  {Str(s) : s \in UNION {StringsOfLen(n) : n \in 0..MaxLen}} \cup {NIL}

\* the values a profile of the model may give a parameter
Dom(key) ==
  CASE key \in {"nozzle_diameter", "bed_shape"} -> MultiValues \cup {Undefined}
    [] key = "default_filament_profile"
         -> MultiValues \cup {Str(<<"a", "\\", "n", ";", "a">>)}
    [] key \in {"external_perimeters_first", "ironing"}
         -> {Undefined, Str(<<"0">>), Str(<<"1">>)}
    [] key = "infill_first" -> {Undefined, Str(<<"0">>), Str(<<"1">>)}
    [] key = "ironing_type" -> {Undefined, Str(<<"top surface">>)}
    [] key \in {"compatible_printers_condition", "compatible_prints_condition"}
         -> {Undefined, EmptyStr, NIL, Str(<<"cond">>)}
    [] key = "bed_temperature" -> {EmptyStr, NIL, Str(<<"6", "0">>)}
    [] key = "layer_height" -> {Undefined, Str(<<"0", ".", "2">>)}
    [] key = "test_param" -> {NIL, Str(<<"a">>)}
    [] key = "perimeter_speed"
         -> {Str(<<"6", "0">>), Str(<<"5", "0", "%">>),
             Str(<<"6", "0", ".", "1", "2", "3">>)}
    [] key = "external_perimeter_speed"
         -> {Undefined, Str(<<"5", "0", "%">>), Str(<<"a">>)}
    [] key = "default_speed" -> {Undefined, Str(<<"1", "0", "0">>)}
    [] key = "first_layer_speed"
         -> {Undefined, Str(<<"3", "0">>), Str(<<"5", "0", "%">>)}
    [] key = "first_layer_infill_speed"
         -> {Undefined, Str(<<"4", "0">>), Str(<<"5", "0", "%">>)}
    [] key = "infill_speed"
         -> {Undefined, Str(<<"8", "0">>), Str(<<"2", "5", "%">>)}
    [] key = "solid_infill_speed"
         -> {Undefined, Str(<<"7", "0", ".", "4", "6">>), Str(<<"5", "0", "%">>)}
    [] key = "top_solid_infill_speed"
         -> {Undefined, Str(<<"4", "5">>), Str(<<"5", "0", "%">>)}
    [] key = "small_perimeter_speed" -> {Undefined, Str(<<"5", "0", "%">>)}
    [] key = "gap_fill_speed"
         -> {Undefined, EmptyStr, Str(<<"1", "5", "0", "%">>)}
    [] key = "support_material_speed"
         -> {Undefined, Str(<<"5", "0">>), Str(<<"5", "0", "%">>)}
    [] key = "support_material_interface_speed"
         -> {Undefined, Str(<<"2", "0">>), Str(<<"1", "0", "0", "%">>)}
    [] key = "bridge_speed"
         -> {Undefined, Str(<<"2", "5">>), Str(<<"1", "5", "0", "%">>)}
    [] key = "enable_dynamic_overhang_speeds"
         -> {Undefined, Str(<<"0">>), Str(<<"1">>)}
    [] key = "dynamic_overhang_speeds"
         -> {Undefined, Str(<<"4", ",", "3", ",", "2", ",", "1">>),
             Str(<<"4", ",", "3">>)}
    [] key = "filament_type"
         -> {Undefined, Str(<<"PLA">>), Str(<<"PET">>), Str(<<"FLEX">>),
             Str(<<"XYZ">>)}
    [] key = "filament_max_volumetric_speed"
         -> {Str(<<"0">>), Str(<<"-", "5">>), Str(<<"a", "b", "c">>),
             Str(<<"1", "5", ".", "0">>), Str(<<"0", ".", "5", "0">>),
             Str(<<"8">>)}
    [] key = "support_material_style"
         -> {Str(<<"grid">>), Str(<<"tree">>), Str(<<"organic">>),
             Str(<<"other">>)}
    [] key = "support_material_auto"
         -> {Undefined, Str(<<"0">>), Str(<<"1">>)}
    [] key = "extrusion_width"
         -> {EmptyStr, Str(<<"0", ".", "4", "5">>), Str(<<"1", "0", "5", "%">>)}
    [] key = "overhang_speed_0" -> {Undefined, Str(<<"9">>)}
    [] key = "overhang_speed_3" -> {Undefined, Str(<<"8">>)}
    [] OTHER -> {Undefined}

\* the groups of parameters a profile of the model sets together
Groups ==
  {{"compatible_printers_condition", "compatible_prints_condition"},
   {"external_perimeters_first", "infill_first", "ironing", "ironing_type"},
   {"bed_temperature"}, {"layer_height", "test_param"},
   {"nozzle_diameter"}, {"bed_shape"}, {"default_filament_profile"},
   {"perimeter_speed", "external_perimeter_speed", "default_speed"},
   {"enable_dynamic_overhang_speeds", "dynamic_overhang_speeds",
    "overhang_speed_0", "overhang_speed_3"},
   {"filament_max_volumetric_speed", "filament_type"},
   {"support_material_style", "support_material_auto"},
   {"extrusion_width"}}

\* the speed parameters that read one another, set together
SpeedGroups ==
  {{"perimeter_speed", "external_perimeter_speed", "first_layer_speed",
    "default_speed"},
   {"solid_infill_speed", "infill_speed", "top_solid_infill_speed",
    "small_perimeter_speed", "gap_fill_speed", "default_speed"},
   {"support_material_speed", "support_material_interface_speed",
    "bridge_speed", "default_speed"},
   {"first_layer_infill_speed", "infill_speed", "first_layer_speed"}}

RECURSIVE Profiles(_)
Profiles(keys) ==
  IF keys = {} THEN {[k \in IniKeys |-> Undefined]}
  ELSE LET k == CHOOSE x \in keys : TRUE
       IN {[f EXCEPT ![k] = v] : f \in Profiles(keys \ {k}), v \in Dom(k)}

IniTypes ==
  {Undefined, Str(<<"print">>), Str(<<"filament">>), Str(<<"printer">>),
   Str(<<"physical_printer">>), Str(<<"unsupported">>)}

\* the flavors readIniFile detects; without one the main loop converts nothing
SlicerFlavors == {Str(<<"PrusaSlicer">>), Str(<<"SuperSlicer">>)}

\* what the collaborator may reply: a listed option, <QUIT>, or no string
MenuAnswers == {KEEP, DISCARD, QUIT, Arr(<< >>)}

(* ------------------------------ the machine ---------------------------- *)

\* initializeStatus(), with the profile type and slicer flavor the caller
\* sets before converting; a caller may also start the flags at false.
InitialStatus(iniType, slicerFlavor, flag) ==
  [iniType |-> iniType, slicerFlavor |-> slicerFlavor,
   ironingType |-> Undefined,
   toVar |-> [externalPerimetersFirst |-> flag, infillFirst |-> flag,
              ironing |-> flag],
   value |-> [compatiblePrintersCondition |-> Undefined,
              compatiblePrintsCondition |-> Undefined]]

NoCall == [op |-> "none", parameter |-> "none", prompted |-> 0,
           offered |-> << >>, reply |-> Undefined]

Init ==
  /\ \E g \in Groups : sourceIni \in Profiles(g)
  /\ \E iniType \in IniTypes, slicerFlavor \in SlicerFlavors,
        flag \in {Undefined, Bool(FALSE)} :
       status = InitialStatus(iniType, slicerFlavor, flag)
  /\ newHash = [key \in OutKeys |-> Undefined]
  /\ ret = Undefined
  /\ call = NoCall
  /\ answers = [slot \in {"compatiblePrintersCondition",
                          "compatiblePrintsCondition"} |-> 0]
  /\ exited = FALSE
  /\ NoRun
  /\ args = << >>

\* The parameters convertParams is called for: the keys of the profile (as
\* the main loop and calculatePrintParams do) and a key it does not have.
CallParams == {k \in IniKeys : sourceIni[k] # Undefined} \cup {"nonexistent"}

\* The collaborator's replies that matter to a call: only the two
\* compatibility conditions can reach displayMenu.
RepliesFor(parameter) ==
  IF parameter \in {"compatible_printers_condition",
                    "compatible_prints_condition"}
    THEN MenuAnswers ELSE {Undefined}

\* the collaborator gave this call a KEEP/DISCARD style answer
Answered(r) == r.prompted = 1 /\ ~r.quit /\ r.reply.type = "string"

\* what a call convertParams(parameter, ...) with outcome r leaves behind
ConvertParamsReturns(parameter, r) ==
  /\ Answered(r) => answers[SlotOf(parameter)] < MaxAnswers
  /\ status' = r.status
  /\ newHash' = r.newHash
  /\ ret' = r.ret
  /\ call' = [op |-> "convertParams", parameter |-> parameter,
              prompted |-> r.prompted, offered |-> r.offered,
              reply |-> r.reply]
  /\ answers' = IF Answered(r)
                  THEN [answers EXCEPT ![SlotOf(parameter)] = @ + 1]
                  ELSE answers
  /\ exited' = r.quit

\* one call of convertParams on the shared status and newHash
ConvertParamsCall ==
  /\ ~exited
  /\ \E parameter \in CallParams : \E answer \in RepliesFor(parameter) :
       ConvertParamsReturns(parameter,
         ConvertParams(parameter, sourceIni, status, newHash, answer))
  /\ UNCHANGED <<sourceIni, args, runVars>>

\* calculatePrintParams mutates status (through convertParams) and newHash
CalculatePrintParamsReturns(r) ==
  /\ status' = r.status
  /\ newHash' = r.newHash

\* one call of calculatePrintParams on the shared status and newHash
CalculatePrintParamsCall ==
  /\ ~exited
  /\ CalculatePrintParamsReturns(CalculatePrintParams(sourceIni, status, newHash))
  /\ ret' = Undefined
  /\ call' = [NoCall EXCEPT !.op = "calculatePrintParams"]
  /\ UNCHANGED <<sourceIni, answers, exited, args, runVars>>

\* The body of the main loop for one parameter: the value convertParams
\* returns, when truthy, is stored under the parameter's target key unless
\* the parameter map lists several keys for it.
StoreConverted(parameter, r) ==
  IF Truthy(r.ret)
       /\ ParameterMap(r.status.iniType, parameter).type = "string"
    THEN [r.newHash
            EXCEPT ![ParameterMap(r.status.iniType, parameter).val[1]] = r.ret]
    ELSE r.newHash

\* what one iteration of the main loop with outcome r leaves behind
MainLoopReturns(parameter, r) ==
  /\ Answered(r) => answers[SlotOf(parameter)] < MaxAnswers
  /\ status' = r.status
  /\ newHash' = StoreConverted(parameter, r)
  /\ ret' = r.ret
  /\ call' = [op |-> "mainLoop", parameter |-> parameter,
              prompted |-> r.prompted, offered |-> r.offered,
              reply |-> r.reply]
  /\ answers' = IF Answered(r)
                  THEN [answers EXCEPT ![SlotOf(parameter)] = @ + 1]
                  ELSE answers
  /\ exited' = r.quit

\* One iteration of the main loop: a key of the profile that the type's
\* parameter map lists is converted and stored.
MainLoopStep ==
  /\ ~exited
  /\ HasTypeMap(status.iniType)
  /\ \E parameter \in {k \in IniKeys : /\ sourceIni[k] # Undefined
                                       /\ ParameterMap(status.iniType, k)
                                            # Undefined} :
       \E answer \in RepliesFor(parameter) :
         MainLoopReturns(parameter,
           ConvertParams(parameter, sourceIni, status, newHash, answer))
  /\ UNCHANGED <<sourceIni, args, runVars>>
Next == ConvertParamsCall \/ CalculatePrintParamsCall

Spec == Init /\ [][Next]_vars

\* The speed settings of a print profile: convertParams on its own and
\* inside the speed loop of calculatePrintParams.
SpeedInit ==
  /\ \E g \in SpeedGroups : sourceIni \in Profiles(g)
  /\ \E slicerFlavor \in SlicerFlavors :
       status = InitialStatus(Str(<<"print">>), slicerFlavor, Undefined)
  /\ newHash = [key \in OutKeys |-> Undefined]
  /\ ret = Undefined
  /\ call = NoCall
  /\ answers = [slot \in {"compatiblePrintersCondition",
                          "compatiblePrintsCondition"} |-> 0]
  /\ exited = FALSE
  /\ NoRun
  /\ args = << >>

SpecSpeeds == SpeedInit /\ [][Next]_vars

\* The comparators and parameters the percentage utilities are applied to:
\* missing, empty, numeric, zero, percentage and non-numeric ones.  A
\* comparator may be a number, as in the utilities' own examples.
Comparators ==
  {Undefined, EmptyStr, Number(Num(10, 0)), Str(<<"1", "0">>),
   Str(<<"2", "0">>), Str(<<"0">>), Str(<<"5", "0", "%">>),
   Str(<<"a", "b", "c">>)}

Params ==
  {Undefined, EmptyStr, Str(<<"5", "0", "%">>), Str(<<"2", "5", "%">>),
   Str(<<"5">>), Str(<<"1", "0">>), Str(<<"a", "b", "c">>)}

PercentInit ==
  /\ args \in Comparators \X Params
  /\ sourceIni = [k \in IniKeys |-> Undefined]
  /\ status = InitialStatus(Undefined, Undefined, Undefined)
  /\ newHash = [key \in OutKeys |-> Undefined]
  /\ ret = Undefined
  /\ call = NoCall
  /\ answers = [slot \in {"compatiblePrintersCondition",
                          "compatiblePrintsCondition"} |-> 0]
  /\ exited = FALSE
  /\ NoRun

\* percentToMm(args[0], args[1])
PercentToMmCall ==
  /\ ret' = PercentToMm(args[1], args[2])
  /\ call' = [NoCall EXCEPT !.op = "percentToMm"]
  /\ UNCHANGED <<sourceIni, status, newHash, answers, exited, args, runVars>>

\* mmToPercent(args[0], args[1])
MmToPercentCall ==
  /\ ret' = MmToPercent(args[1], args[2])
  /\ call' = [NoCall EXCEPT !.op = "mmToPercent"]
  /\ UNCHANGED <<sourceIni, status, newHash, answers, exited, args, runVars>>

NextPercent == PercentToMmCall \/ MmToPercentCall

SpecPercent == PercentInit /\ [][NextPercent]_vars

\* how many of a type's parameters a profile given to detectIniType holds:
\* none, or a number next to the threshold
MatchCounts == {0, 9, 10, 11}

\* a profile with the first np, nf and nr parameters of the three lists,
\* with or without a parameter that two maps share ('random_param' is in
\* no map), and with the given ini_type
DetectProfile(np, nf, nr, shared, iniType) ==
  [param \in DetectKeys |->
     IF param = "ini_type" THEN iniType
     ELSE IF param = "compatible_printers_condition"
       THEN (IF shared THEN Str(<<"cond">>) ELSE Undefined)
     ELSE IF \/ param = "random_param"
             \/ param \in Range(SubSeq(PrintKeys, 1, np))
             \/ param \in Range(SubSeq(FilamentKeys, 1, nf))
             \/ param \in Range(SubSeq(PrinterKeys, 1, nr))
       THEN Str(<<"1">>)
     ELSE Undefined]

DetectInit ==
  /\ \E np \in MatchCounts, nf \in MatchCounts, nr \in MatchCounts,
        shared \in BOOLEAN, iniType \in {Undefined, Str(<<"printer">>)} :
       args = <<DetectProfile(np, nf, nr, shared, iniType)>>
  /\ sourceIni = [k \in IniKeys |-> Undefined]
  /\ status = InitialStatus(Undefined, Undefined, Undefined)
  /\ newHash = [key \in OutKeys |-> Undefined]
  /\ ret = Undefined
  /\ call = NoCall
  /\ answers = [slot \in {"compatiblePrintersCondition",
                          "compatiblePrintsCondition"} |-> 0]
  /\ exited = FALSE
  /\ NoRun

\* detectIniType(args[0])
DetectIniTypeCall ==
  /\ ret' = DetectIniType(args[1])
  /\ call' = [NoCall EXCEPT !.op = "detectIniType"]
  /\ UNCHANGED <<sourceIni, status, newHash, answers, exited, args, runVars>>

NextDetect == DetectIniTypeCall

SpecDetect == DetectInit /\ [][NextDetect]_vars

\* A print profile in the main loop: its mapped parameters are converted and
\* stored, and calculatePrintParams runs on the same status and newHash.
PrintInit == Init /\ status.iniType = Str(<<"print">>)

NextPrint == MainLoopStep \/ CalculatePrintParamsCall

SpecPrint == PrintInit /\ [][NextPrint]_vars

(* ------------------------------ main loop ------------------------------ *)

\* The per-file loop of main (index.js): every input file is read, typed,
\* converted parameter by parameter, completed, written and logged.  The
\* operator's replies to the prompts are inputs of the steps.

\* the keys of status.reset and status.value
StickyKeys ==
  {"onExisting", "physicalPrinter", "nozzleSize", "inherits",
   "compatiblePrintersCondition", "compatiblePrintsCondition"}

\* createStatus, with dirs.slicer as the one directory the loop assigns
CreateStatus ==
  [maxTemp |-> Num(0, 0), interactiveMode |-> FALSE,
   slicerFlavor |-> Undefined, iniType |-> Undefined,
   profileName |-> Undefined, ironingType |-> Undefined,
   iterationsLeft |-> 0, dirs |-> [slicer |-> Undefined],
   toVar |-> [externalPerimetersFirst |-> Undefined,
              infillFirst |-> Undefined, ironing |-> Undefined],
   reset |-> [k \in StickyKeys |-> FALSE],
   value |-> [k \in StickyKeys |-> Undefined]]

\* onExistingOpts
OnExistingOpts ==
  [skip |-> Str(<<"LEAVE IT ALONE">>), merge |-> Str(<<"MERGE NEW PARAMETERS">>),
   overwrite |-> Str(<<"OVERWRITE">>)]

\* the menu entries '<NONE>', 'ALL REMAINING PROFILES' and 'JUST <file>'
NONE == Str(<<"<NONE>">>)

ALL == Str(<<"ALL REMAINING PROFILES">>)

JUST == Str(<<"JUST">>)

\* newHash = {}
EmptyHash == [key \in OutKeys |-> Undefined]

\* isOutputIniType
IsOutputIniType(iniType) ==
  iniType \in {Str(<<"print">>), Str(<<"filament">>), Str(<<"printer">>)}

\* isValidIniType
IsValidIniType(iniType) ==
  iniType # Undefined /\ iniType # Str(<<"unsupported">>)

\* joinPath(outputSubdir, `${file}.json`)
OutputPath(iniType, name) == Str(iniType.val \o <<"/">> \o name.val \o <<".json">>)

\* resetLoop without its reset of the maximum temperature
ResetLoop_KeepsMaxTemp(st) ==
  [st EXCEPT !.iniType = IF st.interactiveMode THEN @ ELSE Undefined,
             !.profileName = Undefined,
             !.toVar = [externalPerimetersFirst |-> Undefined,
                        infillFirst |-> Undefined, ironing |-> Undefined],
             !.ironingType = Undefined,
             !.value = [k \in StickyKeys |->
                          IF st.reset[k] THEN Undefined ELSE st.value[k]],
             !.reset = [k \in StickyKeys |-> FALSE]]

\* resetLoop that forgets every sticky value
ResetLoop_ForgetsAll(st) ==
  [st EXCEPT !.maxTemp = Num(0, 0),
             !.iniType = IF st.interactiveMode THEN @ ELSE Undefined,
             !.profileName = Undefined,
             !.toVar = [externalPerimetersFirst |-> Undefined,
                        infillFirst |-> Undefined, ironing |-> Undefined],
             !.ironingType = Undefined,
             !.value = [k \in StickyKeys |-> Undefined],
             !.reset = [k \in StickyKeys |-> FALSE]]

\* resetLoop on status (newHash = {} is part of the step that calls it)
ResetLoop(st) ==
  [st EXCEPT !.maxTemp = Num(0, 0),
             !.iniType = IF st.interactiveMode THEN @ ELSE Undefined,
             !.profileName = Undefined,
             !.toVar = [externalPerimetersFirst |-> Undefined,
                        infillFirst |-> Undefined, ironing |-> Undefined],
             !.ironingType = Undefined,
             !.value = [k \in StickyKeys |->
                          IF st.reset[k] THEN Undefined ELSE st.value[k]],
             !.reset = [k \in StickyKeys |-> FALSE]]

\* iniType.charAt(0).toUpperCase() + iniType.slice(1)
Capitalized(iniType) ==
  CASE iniType = Str(<<"print">>) -> Str(<<"Print">>)
    [] iniType = Str(<<"filament">>) -> Str(<<"Filament">>)
    [] iniType = Str(<<"printer">>) -> Str(<<"Printer">>)
    [] iniType = Str(<<"physical_printer">>) -> Str(<<"Physical_printer">>)
    [] iniType = Str(<<"unsupported">>) -> Str(<<"Unsupported">>)

\* the ConvertedFile record logFileStatus builds, with the collection key
\* (fileType) it is pushed under
CompletedFile(inputFile, outputFile, slicerFlavor, success, error, st) ==
  [inputFile |-> inputFile, slicerFlavor |-> slicerFlavor,
   outputFile |-> OrElse(outputFile, EmptyStr), success |-> success,
   error |-> OrElse(error, EmptyStr),
   physicalPrinterFile |->
     IF st.iniType # Str(<<"printer">>) THEN Undefined
     ELSE IF Truthy(st.value.physicalPrinter)
             /\ st.value.physicalPrinter # NONE
       THEN st.value.physicalPrinter
     ELSE Str(<<"None">>),
   fileType |-> IF Truthy(st.iniType) THEN Capitalized(st.iniType)
                ELSE Str(<<"Unknown">>)]

\* one prompt shown to the operator while a file is processed: the decision
\* it belongs to, whether it asked for the choice or for its extent
\* (askYesToAll), and the reply
Event(file, decision, prompt, reply) ==
  [file |-> file, decision |-> decision, prompt |-> prompt, reply |-> reply]

\* askYesToAll(param, file) with the operator's reply: nothing is asked when
\* no profile remains.  asked.applied notes, for the claims, the first choice
\* the operator extended to all remaining profiles.
AskYesToAll(param, s, reply) ==
  IF s.status.iterationsLeft = 0 THEN s
  ELSE [s EXCEPT !.status.reset[param] = (reply # ALL),
                 !.asked.events = Append(@, Event(s.file, param, "yesToAll",
                                                  reply)),
                 !.asked.applied[param] =
                   IF reply = ALL /\ @ = Undefined
                     THEN [file |-> s.file,
                           choice |-> s.asked.events[Len(s.asked.events)].reply]
                     ELSE @]

\* the input files of the modelled runs: name, the slicer named by the
\* '# generated by' header (readIniFile), and the parsed configuration, held
\* as its keys that count for type detection and its keys that are converted
InputFile(name, slicerFlavor, detect, config) ==
  [name |-> Str(<<name>>), slicerFlavor |-> slicerFlavor, detect |-> detect,
   config |-> [k \in IniKeys |->
                 IF k \in DOMAIN config THEN config[k] ELSE Undefined]]

RunFiles ==
  {InputFile("a", Str(<<"PrusaSlicer">>),
             DetectProfile(10, 0, 0, TRUE, Undefined),
             [profile_name |-> Str(<<"My profile">>),
              layer_height |-> Str(<<"0", ".", "2">>),
              external_perimeters_first |-> Str(<<"1">>),
              ironing |-> Str(<<"1">>),
              ironing_type |-> Str(<<"top surface">>),
              compatible_printers_condition |-> Str(<<"cond">>)]),
   InputFile("b", Undefined, DetectProfile(10, 0, 0, FALSE, Undefined),
             [infill_first |-> Str(<<"1">>)]),
   InputFile("c", Str(<<"SuperSlicer">>),
             DetectProfile(0, 10, 0, TRUE, Undefined),
             [temperature |-> Str(<<"2", "1", "5">>),
              compatible_printers_condition |-> Str(<<"cond">>),
              compatible_prints_condition |-> Str(<<"cond">>)]),
   InputFile("d", Str(<<"PrusaSlicer">>),
             DetectProfile(0, 0, 10, FALSE, Undefined),
             [nozzle_diameter |-> Str(<<"0", ".", "4">>)]),
   InputFile("e", Str(<<"PrusaSlicer">>),
             DetectProfile(9, 0, 0, FALSE, Undefined),
             [layer_height |-> Str(<<"0", ".", "2">>)]),
   InputFile("f", Str(<<"PrusaSlicer">>),
             DetectProfile(0, 0, 10, FALSE, Str(<<"physical_printer">>)),
             [nozzle_diameter |-> Str(<<"0", ".", "4">>)])}

\* Object.keys(sourceIni): the keys of a profile in the order of its lines
KeyOrder ==
  <<"profile_name", "layer_height", "external_perimeters_first",
    "infill_first", "ironing", "ironing_type", "temperature",
    "nozzle_diameter", "compatible_printers_condition",
    "compatible_prints_condition">>

\* the replies the operator gives to the nozzle-size prompt
NozzleInputs == {EmptyStr, Str(<<"0", ".", "6", "m", "m">>)}

IsDigitOrDot(c) == c \in Digits \cup {"."}

\* nozzleInput.replace(/[^\d.]/g, '')
Cleaned(nozzleInput) == Str(SelectSeq(nozzleInput.val, IsDigitOrDot))

\* what one pass of the loop body carries from statement to statement
Carried(st, hash, events, file) ==
  [status |-> st, newHash |-> hash, asked |-> events, file |-> file]

\* how a piece of the loop body ends: with a call of logFileStatus (its
\* arguments in log), with a thrown Error, or by going on
Ended(s, log, threw, written) ==
  [status |-> s.status, newHash |-> s.newHash, asked |-> s.asked, log |-> log,
   threw |-> threw, written |-> written]

Logged(s, outputFile, slicerFlavor, success, error) ==
  Ended(s, <<outputFile, slicerFlavor, success, error>>, FALSE, Undefined)

\* lines 835, 839-844: iterationsLeft and the slicer of the file read
FileRead(f, st) ==
  [st EXCEPT !.iterationsLeft = Len(inputFiles) - (index + 1),
             !.slicerFlavor = IF Truthy(f.slicerFlavor) THEN f.slicerFlavor
                              ELSE @,
             !.dirs.slicer = IF Truthy(f.slicerFlavor) /\ ~Truthy(@)
                               THEN f.slicerFlavor ELSE @]

\* lines 887-893: the nozzle size named by the profile
NozzleFromProfile(f, st) ==
  IF Truthy(f.config["nozzle_diameter"])
       /\ Len(MultivalueToArray(f.config["nozzle_diameter"])) > 0
    THEN [st EXCEPT !.value.nozzleSize =
            Number(ParseFloat(MultivalueToArray(f.config["nozzle_diameter"])[1]))]
    ELSE st

\* lines 910-919: newHash = {} and the two type checks
ParametersReached(f, s) ==
  IF ~IsValidIniType(s.status.iniType)
    THEN Logged(s, Undefined, s.status.slicerFlavor, Str(<<"NO">>),
                Str(<<"Invalid ini type">>))
  ELSE IF ~HasTypeMap(s.status.iniType)
    THEN Logged(s, Undefined, s.status.slicerFlavor, Str(<<"NO">>),
                Str(<<"No parameter map for ini type">>))
  ELSE Ended([s EXCEPT !.newHash = EmptyHash], << >>, FALSE, Undefined)

\* lines 901-908: without a nozzle size, twice the layer height
NozzleChecked(f, s) ==
  IF Truthy(s.status.value.nozzleSize) THEN ParametersReached(f, s)
  ELSE IF ~Truthy(f.config["layer_height"])
    THEN Logged(s, OutputPath(s.status.iniType, f.name), s.status.slicerFlavor,
                Str(<<"NO">>), Str(<<"Invalid layer height">>))
  ELSE ParametersReached(f,
         [s EXCEPT !.status.value.nozzleSize =
            Number(Mul(Num(2, 0), ParseFloat(f.config["layer_height"])))])

\* lines 895-900: the nozzle-size prompt and askYesToAll
NozzleAsked(s, nozzleInput, reply) ==
  AskYesToAll("nozzleSize",
    [s EXCEPT !.status.value.nozzleSize =
                IF Truthy(Cleaned(nozzleInput))
                  THEN Number(ParseFloat(Cleaned(nozzleInput))) ELSE @,
              !.asked.events = Append(@, Event(s.file, "nozzleSize", "choice",
                                        nozzleInput))],
    reply)

\* lines 886-909
NozzleSize(f, s, nozzleInput, reply) ==
  IF ~Truthy(s.status.value.nozzleSize) /\ s.status.iniType = Str(<<"print">>)
    THEN NozzleChecked(f, NozzleAsked(s, nozzleInput, reply))
    ELSE ParametersReached(f, s)

\* lines 849-885: the profile type and the output directory
TypeDetected(f, s, nozzleInput, reply) ==
  IF ~Truthy(s.status.iniType)
    THEN Logged([s EXCEPT !.status.iniType = Str(<<"unsupported">>)],
                Undefined, s.status.slicerFlavor, Str(<<"NO">>),
                Str(<<"Unsupported file">>))
  ELSE IF ~IsOutputIniType(s.status.iniType)
    THEN Ended(s, << >>, TRUE, Undefined)
  ELSE NozzleSize(f, [s EXCEPT !.status = NozzleFromProfile(f, @)],
                  nozzleInput, reply)

\* lines 832-919: the loop body up to the parameter loop
FileOpened(f, s, nozzleInput, reply) ==
  IF ~Truthy(s.status.slicerFlavor)
    THEN Logged(s, Undefined, Str(<<"Unknown">>), Str(<<"NO">>),
                Str(<<"Unsupported slicer">>))
  ELSE TypeDetected(f,
         [s EXCEPT !.status.iniType = OrElse(@, DetectIniType(f.detect))],
         nozzleInput, reply)

\* a > b on numbers (false when either is NaN)
Greater(a, b) ==
  /\ ~a.nan
  /\ ~b.nan
  /\ a.num * Pow10(b.scale) > b.num * Pow10(a.scale)

\* lines 940-946: the highest temperature converted so far
TrackMaxTemp(parameter, r) ==
  IF /\ Truthy(r.ret)
     /\ ParameterMap(r.status.iniType, parameter).type # "array"
     /\ parameter \in {"first_layer_temperature", "temperature"}
     /\ r.ret.type = "string"
     /\ Greater(ParseFloat(r.ret), r.status.maxTemp)
    THEN [r.status EXCEPT !.maxTemp = ParseFloat(r.ret)]
    ELSE r.status

\* lines 929-946 on what convertParams returned
ParameterConverted(parameter, s, r) ==
  [s EXCEPT !.status = TrackMaxTemp(parameter, r),
            !.newHash = StoreConverted(parameter, r),
            !.asked.events =
              IF r.prompted = 1
                THEN Append(@, Event(s.file, SlotOf(parameter), "choice",
                                     r.reply))
                ELSE @]

\* lines 922-946: the loop body for one key of the profile
ParameterStep(parameter, s, replies) ==
  IF sourceIni[parameter] = Undefined THEN s
  ELSE IF parameter = "profile_name"
    THEN [s EXCEPT !.status.profileName = sourceIni[parameter]]
  ELSE IF ParameterMap(s.status.iniType, parameter) = Undefined THEN s
  ELSE ParameterConverted(parameter, s,
         ConvertParams(parameter, sourceIni, s.status, s.newHash,
                       IF parameter \in DOMAIN replies THEN replies[parameter]
                       ELSE Undefined))

\* lines 921-947: the parameter loop from place i of the key order on
RECURSIVE ParameterLoop(_, _, _)
ParameterLoop(i, s, replies) ==
  IF i > Len(KeyOrder) THEN s
  ELSE ParameterLoop(i + 1, ParameterStep(KeyOrder[i], s, replies), replies)

\* ORCA_SLICER_VERSION
OrcaSlicerVersion == Str(<<"1.6.0.0">>)

\* `${status.iniType}_settings_id`
SettingsId(iniType) ==
  CASE iniType = Str(<<"print">>) -> "print_settings_id"
    [] iniType = Str(<<"filament">>) -> "filament_settings_id"
    [] iniType = Str(<<"printer">>) -> "printer_settings_id"

\* lines 948-954: the name is the profile name or else the file name
Named(f, s) ==
  [s EXCEPT !.newHash =
     [@ EXCEPT ![SettingsId(s.status.iniType)] =
                 OrElse(s.status.profileName, f.name),
               !["name"] = OrElse(s.status.profileName, f.name),
               !["from"] = Str(<<"User">>),
               !["is_custom_defined"] = Str(<<"1">>),
               !["version"] = OrcaSlicerVersion]]

\* lines 956-962: the metadata of a filament profile
FilamentMetadata(s) ==
  [s EXCEPT !.newHash =
     [@ EXCEPT !["nozzle_temperature_range_low"] = Str(<<"0">>),
               !["nozzle_temperature_range_high"] = NumToStr(s.status.maxTemp),
               !["slow_down_for_layer_cooling"] =
                 IF Truthy(sourceIni["slowdown_below_layer_time"])
                   THEN (IF Positive(ParseFloat(sourceIni["slowdown_below_layer_time"]))
                           THEN Str(<<"1">>) ELSE Str(<<"0">>))
                   ELSE @]]

\* calculatePrintParams on what the pass carries
PrintCalculated(s, r) == [s EXCEPT !.status = r.status, !.newHash = r.newHash]

\* the printers configured in the OrcaSlicer system directory and the
\* physical printers of the source slicer: PrusaSlicer's data directory
\* holds a physical_printer directory, SuperSlicer's does not
SystemPrinters == {Str(<<"Prusa MK3S">>)}

PhysicalPrinters(slicerDir) ==
  IF slicerDir = Str(<<"PrusaSlicer">>) THEN {Str(<<"p1">>)} ELSE {}

\* linkSystemPrinter with the operator's choice and reply to askYesToAll;
\* its result is assigned to newHash.inherits
LinkSystemPrinter(s, choice, reply) ==
  IF Truthy(s.status.value.inherits)
    THEN [s EXCEPT !.newHash["inherits"] = s.status.value.inherits]
  ELSE [AskYesToAll("inherits",
          [s EXCEPT !.asked.events = Append(@, Event(s.file, "inherits", "choice",
                                              choice))],
          reply)
        EXCEPT !.status.value.inherits =
                 IF choice = NONE THEN EmptyStr ELSE choice,
               !.newHash["inherits"] =
                 IF choice = NONE THEN EmptyStr ELSE choice]

\* handlePhysicalPrinter: the choice of the physical printer.  The profiles
\* modelled hold no key of parameterMap.physical_printer, so the hash it
\* returns is empty.
HandlePhysicalPrinter(f, s, choice, reply) ==
  IF Truthy(s.status.value.physicalPrinter) THEN s
  ELSE IF Truthy(s.status.dirs.slicer)
          /\ PhysicalPrinters(s.status.dirs.slicer) # {}
    THEN AskYesToAll("physicalPrinter",
           [s EXCEPT !.status.value.physicalPrinter = choice,
                     !.asked.events = Append(@, Event(s.file, "physicalPrinter",
                                               "choice", choice))],
           reply)
  ELSE [s EXCEPT !.status.value.physicalPrinter = f.name]

\* lines 956-970: what is added for the type of the profile
Completed(f, s, link, physical) ==
  CASE s.status.iniType = Str(<<"filament">>) -> FilamentMetadata(s)
    [] s.status.iniType = Str(<<"print">>)
         -> PrintCalculated(s, CalculatePrintParams(sourceIni, s.status,
                                                    s.newHash))
    [] s.status.iniType = Str(<<"printer">>)
         -> HandlePhysicalPrinter(f,
              LinkSystemPrinter(s, link.choice, link.reply),
              physical.choice, physical.reply)

\* Object.assign(newHash, existingJson)
Assign(hash, existingJson) ==
  [key \in OutKeys |->
     IF existingJson[key] # Undefined THEN existingJson[key] ELSE hash[key]]

\* lines 973-982: the operator's decision about an existing output file
ExistingAsked(s, choice, reply) ==
  IF Truthy(s.status.value.onExisting) THEN s
  ELSE AskYesToAll("onExisting",
         [s EXCEPT !.status.value.onExisting = choice,
                   !.asked.events = Append(@, Event(s.file, "onExisting", "choice",
                                             choice))],
         reply)

\* lines 992-995: the output is written and the file logged
Written(s, outputFile, hash) ==
  Ended(s, <<outputFile, s.status.slicerFlavor,
             IF s.status.value.onExisting = OnExistingOpts.merge
               THEN Str(<<"MERGED">>) ELSE Str(<<"YES">>),
             Undefined>>,
        FALSE, hash)

\* lines 983-990 on an output file that exists
ExistingHandled(s, outputFile, existingJson) ==
  IF s.status.value.onExisting = OnExistingOpts.skip
    THEN Logged(s, outputFile, s.status.slicerFlavor, Str(<<"NO">>),
                Str(<<"Target file exists">>))
  ELSE IF s.status.value.onExisting = OnExistingOpts.merge
    THEN Written(s, outputFile, Assign(s.newHash, existingJson))
  ELSE Written(s, outputFile, s.newHash)

\* lines 971-995
Output(s, outputFile, existing) ==
  IF outputFiles[outputFile] # Undefined
    THEN ExistingHandled(ExistingAsked(s, existing.choice, existing.reply),
                         outputFile, outputFiles[outputFile])
    ELSE Written(s, outputFile, s.newHash)

\* lines 921-995: the loop body from the parameter loop on
FileConverted(f, s, replies, link, physical, existing) ==
  Output(Completed(f, Named(f, ParameterLoop(1, s, replies)), link, physical),
         OutputPath(s.status.iniType, f.name), existing)

\* the largest number of input files of a run
MaxFiles == 2

\* the output files a run can write, and one that was there before the run
OutputPaths ==
  {OutputPath(iniType, f.name) :
     iniType \in {Str(<<"print">>), Str(<<"filament">>), Str(<<"printer">>)},
     f \in RunFiles}

ExistingJson ==
  [EmptyHash EXCEPT !["name"] = Str(<<"existing">>),
                    !["layer_height"] = Str(<<"0", ".", "3">>)]

\* the replies of the operator to askYesToAll and to the menus
YesToAll == {ALL, JUST}

\* the replies to a menu; none is drawn for a menu the step cannot reach
Choices(options, reachable) == IF reachable THEN options ELSE {Undefined}

\* the replies to askYesToAll; none is drawn after the last file
Extents == IF status.iterationsLeft = 0 THEN {JUST} ELSE YesToAll

\* the replies to the KEEP/DISCARD menu of the conditions the profile holds
ConditionReplies ==
  {replies \in [{"compatible_printers_condition",
                 "compatible_prints_condition"} -> {KEEP, DISCARD}] :
     \A parameter \in DOMAIN replies :
       sourceIni[parameter] = Undefined => replies[parameter] = KEEP}

\* no prompt has been shown
NothingAsked ==
  [events |-> << >>, applied |-> [k \in StickyKeys |-> Undefined]]

\* how main is started (lines 720-795): with the files named on the command
\* line, with --on-existing merge as well, or with no file, so that the
\* operator picks PrusaSlicer printer profiles interactively
Started ==
  {CreateStatus,
   [CreateStatus EXCEPT !.value.onExisting = OnExistingOpts.merge],
   [CreateStatus EXCEPT !.interactiveMode = TRUE,
                        !.iniType = Str(<<"printer">>),
                        !.dirs.slicer = Str(<<"PrusaSlicer">>)]}

\* the output files present before a run from the command line: none, or
\* the print profile a and the printer profile d
Present ==
  {OutputPath(Str(<<"print">>), Str(<<"a">>)),
   OutputPath(Str(<<"printer">>), Str(<<"d">>))}

\* the lists of input files: up to MaxFiles different files in any order
FileLists ==
  {files \in UNION {[1..n -> RunFiles] : n \in 1..MaxFiles} :
     \A i, j \in DOMAIN files : files[i] = files[j] => i = j}

\* main before the loop
RunInit ==
  /\ inputFiles \in FileLists
  /\ status \in Started
  /\ \E present \in (IF status = CreateStatus THEN {{}, Present} ELSE {{}}) :
       outputFiles = [path \in OutputPaths |->
                        IF path \in present THEN ExistingJson ELSE Undefined]
  /\ index = 0
  /\ convertedFiles = << >>
  /\ asked = NothingAsked
  /\ sourceIni = [k \in IniKeys |-> Undefined]
  /\ newHash = EmptyHash
  /\ ret = Undefined
  /\ call = NoCall
  /\ answers = [slot \in {"compatiblePrintersCondition",
                          "compatiblePrintsCondition"} |-> 0]
  /\ exited = FALSE
  /\ args = << >>

\* the loop is at the top of its body
AtLoopHead ==
  /\ ~exited
  /\ args = << >>
  /\ call.op \in {"none", "logFileStatus"}

\* where a piece of the loop body leaves the run: logFileStatus is the next
\* call when args holds its arguments
LoopBodyReturns(f, r, op) ==
  /\ status' = r.status
  /\ newHash' = r.newHash
  /\ asked' = r.asked
  /\ args' = IF r.log = << >> THEN << >> ELSE <<f.name>> \o r.log
  /\ outputFiles' = IF r.written = Undefined THEN outputFiles
                    ELSE [outputFiles EXCEPT ![r.log[1]] = r.written]
  /\ call' = [NoCall EXCEPT !.op = IF r.threw THEN "error" ELSE op]
  /\ exited' = r.threw
  /\ ret' = Undefined

\* lines 832-919: a file is read and typed and the nozzle size settled
ReadFile ==
  /\ AtLoopHead
  /\ index < Len(inputFiles)
  /\ sourceIni' = inputFiles[index + 1].config
  /\ \E nozzleInput \in NozzleInputs,
        reply \in IF index + 1 = Len(inputFiles) THEN {JUST} ELSE YesToAll :
       LoopBodyReturns(inputFiles[index + 1],
         FileOpened(inputFiles[index + 1],
           Carried(FileRead(inputFiles[index + 1], status), newHash,
                   [asked EXCEPT !.events = << >>], index + 1),
           nozzleInput, reply),
         "readFile")
  /\ UNCHANGED <<answers, inputFiles, index, convertedFiles>>

\* lines 921-995: the parameters are converted, the profile completed and
\* the output written
ConvertFile ==
  /\ ~exited
  /\ args = << >>
  /\ call.op = "readFile"
  /\ \E replies \in ConditionReplies,
        link \in Choices(SystemPrinters \cup {NONE},
                         status.iniType = Str(<<"printer">>)),
        physical \in Choices(PhysicalPrinters(status.dirs.slicer) \cup {NONE},
                             status.iniType = Str(<<"printer">>)),
        existing \in Choices({OnExistingOpts.skip, OnExistingOpts.overwrite,
                              OnExistingOpts.merge},
                             outputFiles[OutputPath(status.iniType,
                               inputFiles[index + 1].name)] # Undefined),
        reply \in Extents :
       LoopBodyReturns(inputFiles[index + 1],
         FileConverted(inputFiles[index + 1],
           Carried(status, newHash, asked, index + 1),
           replies, [choice |-> link, reply |-> reply],
           [choice |-> physical, reply |-> reply],
           [choice |-> existing, reply |-> reply]),
         "convertFile")
  /\ UNCHANGED <<sourceIni, answers, inputFiles, index, convertedFiles>>

\* logFileStatus(inputFile, outputFile, slicerFlavor, success, error), which
\* ends with resetLoop; the loop then goes to the next file
LogFileStatus ==
  /\ ~exited
  /\ args # << >>
  /\ convertedFiles' =
       Append(convertedFiles,
              CompletedFile(args[1], args[2], args[3], args[4], args[5],
                            status))
  /\ status' = ResetLoop(status)
  /\ newHash' = EmptyHash
  /\ index' = index + 1
  /\ args' = << >>
  /\ call' = [NoCall EXCEPT !.op = "logFileStatus"]
  /\ UNCHANGED <<sourceIni, ret, answers, exited, inputFiles, outputFiles,
                 asked>>

\* exitWithConversionSummary after the last file
ExitWithConversionSummary ==
  /\ AtLoopHead
  /\ index = Len(inputFiles)
  /\ exited' = TRUE
  /\ call' = [NoCall EXCEPT !.op = "exitWithConversionSummary"]
  /\ UNCHANGED <<sourceIni, status, newHash, ret, answers, args, inputFiles,
                 index, convertedFiles, outputFiles, asked>>

NextRun ==
  ReadFile \/ ConvertFile \/ LogFileStatus \/ ExitWithConversionSummary

SpecRun == RunInit /\ [][NextRun]_vars

(* -------------------------------- claims ------------------------------- *)

CondParams == {"compatible_printers_condition", "compatible_prints_condition"}

Slots == {"compatiblePrintersCondition", "compatiblePrintsCondition"}

FlagParams == {"external_perimeters_first", "infill_first", "ironing"}

\* a profile type convertParams can map
Convertible(iniType) ==
  /\ Truthy(iniType)
  /\ iniType \notin {Str(<<"unsupported">>), Str(<<"physical_printer">>)}

\* the profile gives the parameter a value that is neither empty nor 'nil'
HasValue(parameter) ==
  Truthy(sourceIni[parameter]) /\ sourceIni[parameter] # NIL

\* this step is a call convertParams(parameter, ...)
Converts(parameter) ==
  call'.op = "convertParams" /\ call'.parameter = parameter

\* the latest call was convertParams(parameter, ...)
Converted(parameter) ==
  call.op = "convertParams" /\ call.parameter = parameter

\* C1: a compatibility condition with a value, in a convertible profile type,
\* whose slot is already DISCARD yields '', and whose slot is already KEEP
\* yields the source value; neither invokes displayMenu and the slot keeps
\* its value.
C1_DecidedSlotAnswersWithoutPrompt ==
  [][\A p \in CondParams :
       (Converts(p) /\ HasValue(p) /\ Convertible(status.iniType)
          /\ status.value[SlotOf(p)] \in {KEEP, DISCARD})
       => /\ ret' = IF status.value[SlotOf(p)] = KEEP THEN sourceIni[p]
                    ELSE EmptyStr
          /\ call'.prompted = 0
          /\ status'.value[SlotOf(p)] = status.value[SlotOf(p)]
          /\ ~exited']_vars

C1_Witness ==
  /\ Converted("compatible_prints_condition")
  /\ HasValue("compatible_prints_condition")
  /\ Convertible(status.iniType)
  /\ status.value.compatiblePrintsCondition = KEEP
  /\ status.value.compatiblePrintersCondition = DISCARD
  /\ call.prompted = 0
  /\ ret = sourceIni["compatible_prints_condition"]

\* C2: a compatibility condition with a value and an undecided slot invokes
\* displayMenu exactly once offering KEEP and DISCARD; the answer is stored in
\* the parameter's own slot, KEEP returns the source value and DISCARD '',
\* and the other slot never changes.
C2_UndecidedSlotPromptsOnce ==
  [][\A p \in CondParams :
       (Converts(p) /\ HasValue(p) /\ Convertible(status.iniType)
          /\ status.value[SlotOf(p)] \notin {KEEP, DISCARD})
       => /\ call'.prompted = 1
          /\ call'.offered = <<KEEP, DISCARD>>
          /\ \A other \in Slots \ {SlotOf(p)} :
               status'.value[other] = status.value[other]
          /\ call'.reply \in {KEEP, DISCARD}
               => /\ status'.value[SlotOf(p)] = call'.reply
                  /\ ret' = IF call'.reply = KEEP THEN sourceIni[p]
                            ELSE EmptyStr]_vars

C2_Witness ==
  /\ Converted("compatible_printers_condition")
  /\ HasValue("compatible_printers_condition")
  /\ call.prompted = 1
  /\ call.reply = KEEP
  /\ status.value.compatiblePrintersCondition = KEEP
  /\ status.value.compatiblePrintsCondition = DISCARD
  /\ ret = sourceIni["compatible_printers_condition"]

\* C3: over any sequence of calls on one status, the collaborator gives at
\* most one KEEP/DISCARD answer per slot, and a slot that holds an answer was
\* answered exactly once.
C3_AtMostOneAnswerPerSlot ==
  \A slot \in Slots :
    /\ answers[slot] <= 1
    /\ status.value[slot] \in {KEEP, DISCARD} <=> answers[slot] = 1
    /\ \A p \in CondParams :
         (Converted(p) /\ SlotOf(p) = slot /\ answers[slot] = 1
            /\ HasValue(p) /\ Convertible(status.iniType) /\ ~exited)
         => ret = IF status.value[slot] = KEEP THEN sourceIni[p] ELSE EmptyStr

C3_Witness ==
  /\ \A slot \in Slots : answers[slot] = 1
  /\ Converted("compatible_printers_condition")
  /\ HasValue("compatible_printers_condition")
  /\ call.prompted = 0

\* C4: when the slot is undecided and the collaborator's reply is not a
\* string, convertParams returns '' and changes neither status nor newHash.
C4_NonStringReplyDiscardsWithoutPersisting ==
  [][\A p \in CondParams :
       (Converts(p) /\ call'.prompted = 1 /\ call'.reply.type # "string")
       => /\ ret' = EmptyStr
          /\ status' = status
          /\ newHash' = newHash
          /\ ~exited']_vars

C4_Witness ==
  /\ Converted("compatible_printers_condition")
  /\ call.prompted = 1
  /\ call.reply.type = "array"
  /\ ret = EmptyStr
  /\ status.value.compatiblePrintersCondition = Undefined

\* C5: a source value that is undefined, '' or 'nil' makes convertParams
\* return undefined without writing newHash, changing status or prompting,
\* whatever the parameter, profile type and slicer flavor.
C5_NoValueNoEffect ==
  [][\A p \in IniKeys :
       (Converts(p) /\ ~HasValue(p))
       => /\ ret' = Undefined
          /\ newHash' = newHash
          /\ status' = status
          /\ call'.prompted = 0]_vars

C5_Witness ==
  /\ Converted("bed_temperature")
  /\ sourceIni["bed_temperature"] = NIL
  /\ status.iniType = Str(<<"filament">>)
  /\ ret = Undefined
  /\ newHash["hot_plate_temp"] = Undefined

\* C6: with no profile type, or 'unsupported' or 'physical_printer',
\* convertParams returns undefined for every parameter that is not
\* array-valued, and writes nothing, changes no status field and does not
\* prompt.
C6_UnconvertibleTypeNoEffect ==
  [][\A p \in IniKeys \ ArrayParams :
       (Converts(p) /\ ~Convertible(status.iniType))
       => /\ ret' = Undefined
          /\ newHash' = newHash
          /\ status' = status
          /\ call'.prompted = 0]_vars

C6_Witness ==
  /\ Converted("ironing")
  /\ HasValue("ironing")
  /\ status.iniType = Str(<<"physical_printer">>)
  /\ ret = Undefined
  /\ status.toVar.ironing = Undefined

\* the value convertParams carries past the multivalue step
Scalar(p) ==
  IF p \in SingleParams
    THEN OrElse(First(MultivalueToArray(sourceIni[p])), EmptyStr)
    ELSE sourceIni[p]

\* C7: a parameter the active type's parameter map gives a list of target
\* keys is written, untransformed, under every listed key and no other;
\* convertParams returns undefined and status is unchanged.
C7_FanOutWritesEveryListedKey ==
  [][\A p \in IniKeys \ ArrayParams :
       (Converts(p) /\ HasValue(p) /\ Convertible(status.iniType)
          /\ ParameterMap(status.iniType, p).type = "array")
       => /\ ret' = Undefined
          /\ \A key \in OutKeys :
               newHash'[key] =
                 IF key \in Range(ParameterMap(status.iniType, p).val)
                   THEN Scalar(p) ELSE newHash[key]
          /\ status' = status
          /\ call'.prompted = 0]_vars

C7_Witness ==
  /\ Converted("bed_temperature")
  /\ status.iniType = Str(<<"filament">>)
  /\ ret = Undefined
  /\ newHash["hot_plate_temp"] = Str(<<"6", "0">>)
  /\ newHash["cool_plate_temp"] = Str(<<"6", "0">>)

\* C8: each of external_perimeters_first, infill_first and ironing with a
\* value, in a convertible type, sets its own status.toVar flag to true and
\* nothing else: undefined is returned, newHash is not written, the other two
\* flags and status.ironingType keep their values.
C8_CombinationFlagSetsOnlyItsFlag ==
  [][\A p \in FlagParams :
       (Converts(p) /\ HasValue(p) /\ Convertible(status.iniType)
          /\ ParameterMap(status.iniType, p).type # "array")
       => /\ ret' = Undefined
          /\ newHash' = newHash
          /\ status' = [status EXCEPT !.toVar[FlagOf(p)] = Bool(TRUE)]]_vars

C8_Witness ==
  /\ Converted("infill_first")
  /\ HasValue("infill_first")
  /\ status.toVar.infillFirst = Bool(TRUE)
  /\ status.toVar.externalPerimetersFirst = Bool(FALSE)
  /\ status.toVar.ironing = Bool(TRUE)
  /\ status.ironingType = Str(<<"top surface">>)

\* how many times a character occurs in a string
RECURSIVE Count(_, _)
Count(s, c) ==
  IF s = << >> THEN 0
  ELSE (IF Head(s) = c THEN 1 ELSE 0) + Count(Tail(s), c)

\* a string that neither begins nor ends with whitespace
Trimmed(v) ==
  /\ v.type = "string"
  /\ v.val # << >> => /\ Head(v.val) \notin Whitespace
                      /\ v.val[Len(v.val)] \notin Whitespace

\* the pieces of a raw multivalue string: cut at every comma if it has one,
\* at every semicolon otherwise, each piece trimmed
IsTrimmedSplit(array, raw) ==
  LET d == IF "," \in Range(raw.val) THEN "," ELSE ";" IN
  /\ Len(array) = Count(raw.val, d) + 1
  /\ \A i \in DOMAIN array :
       /\ Trimmed(array[i])
       /\ d \notin Range(array[i].val)
  /\ array = MultivalueToArray(raw)

\* C9: a parameter registered 'array' returns the whole trimmed split
\* sequence whatever the profile type, with no side effect; a parameter
\* registered 'single' goes on through the type check and the special cases
\* with the first split element, or '' if it is empty, in place of the raw
\* value.
C9_MultivalueArrayReturnsSplitSingleContinues ==
  [][/\ \A p \in IniKeys \cap ArrayParams :
          (Converts(p) /\ HasValue(p))
          => /\ ret'.type = "array"
             /\ IsTrimmedSplit(ret'.val, sourceIni[p])
             /\ status' = status
             /\ newHash' = newHash
             /\ call'.prompted = 0
     /\ \A p \in IniKeys \cap SingleParams :
          (Converts(p) /\ HasValue(p))
          => LET array == MultivalueToArray(sourceIni[p])
                 first == IF Truthy(array[1]) THEN array[1] ELSE EmptyStr
             IN /\ IsTrimmedSplit(array, sourceIni[p])
                /\ ret' = IF ~Convertible(status.iniType) THEN Undefined
                          ELSE IF p = "default_filament_profile"
                            \* its special case splits the element again
                            THEN Unbackslash(
                                   OrElse(First(MultivalueToArray(first)),
                                          EmptyStr))
                          ELSE first
                /\ status' = status
                /\ newHash' = newHash]_vars

C9_Witness ==
  /\ Converted("bed_shape")
  /\ sourceIni["bed_shape"] = Str(<<" ", "a", ",">>)
  /\ status.iniType = Str(<<"physical_printer">>)
  /\ ret = Arr(<<Str(<<"a">>), EmptyStr>>)

C9_WitnessSingle ==
  /\ Converted("nozzle_diameter")
  /\ sourceIni["nozzle_diameter"] = Str(<<"a", ",", "a">>)
  /\ status.iniType = Str(<<"printer">>)
  /\ ret = Str(<<"a">>)

\* C10: after calculatePrintParams, wall_infill_order follows the four-row
\* table on (externalPerimetersFirst, infillFirst), an undefined flag
\* counting as false: (false,false) inner/outer/infill, (true,false)
\* outer/inner/infill, (false,true) infill/inner/outer, (true,true)
\* infill/outer/inner.
C10_WallInfillOrderTable ==
  call.op = "calculatePrintParams" =>
    LET e == status.toVar.externalPerimetersFirst = Bool(TRUE)
        i == status.toVar.infillFirst = Bool(TRUE)
    IN /\ status.toVar.externalPerimetersFirst \in {Undefined, Bool(FALSE), Bool(TRUE)}
       /\ status.toVar.infillFirst \in {Undefined, Bool(FALSE), Bool(TRUE)}
       /\ (~e /\ ~i) => newHash["wall_infill_order"] = Str(<<"inner wall/outer wall/infill">>)
       /\ (e /\ ~i) => newHash["wall_infill_order"] = Str(<<"outer wall/inner wall/infill">>)
       /\ (~e /\ i) => newHash["wall_infill_order"] = Str(<<"infill/inner wall/outer wall">>)
       /\ (e /\ i) => newHash["wall_infill_order"] = Str(<<"infill/outer wall/inner wall">>)

C10_Witness ==
  /\ call.op = "calculatePrintParams"
  /\ status.toVar.externalPerimetersFirst = Bool(TRUE)
  /\ status.toVar.infillFirst = Bool(TRUE)
  /\ newHash["wall_infill_order"] = Str(<<"infill/outer wall/inner wall">>)

C10_WitnessUndefinedFlag ==
  /\ call.op = "calculatePrintParams"
  /\ status.toVar.externalPerimetersFirst = Bool(TRUE)
  /\ status.toVar.infillFirst = Undefined
  /\ newHash["wall_infill_order"] = Str(<<"outer wall/inner wall/infill">>)

\* C11: after calculatePrintParams, newHash['ironing_type'] is
\* status.ironingType only when status.toVar.ironing is true and
\* status.ironingType is set; otherwise (flag false or undefined, or no type)
\* it is 'no ironing', whatever ironing_type the main loop had stored.
C11_IroningTypeFollowsFlag ==
  call.op = "calculatePrintParams" =>
    newHash["ironing_type"] =
      IF status.toVar.ironing = Bool(TRUE)
           /\ status.ironingType \notin {Undefined, EmptyStr}
        THEN status.ironingType
        ELSE Str(<<"no ironing">>)

\* The main loop converted ironing_type (only that sets status.ironingType)
\* and so stored it in newHash; the flag is not true, and calculatePrintParams
\* replaced the stored value.
C11_Witness ==
  /\ call.op = "calculatePrintParams"
  /\ sourceIni["ironing_type"] = Str(<<"top surface">>)
  /\ status.ironingType = Str(<<"top surface">>)
  /\ status.toVar.ironing # Bool(TRUE)
  /\ newHash["ironing_type"] = Str(<<"no ironing">>)

C11_WitnessKept ==
  /\ call.op = "calculatePrintParams"
  /\ status.toVar.ironing = Bool(TRUE)
  /\ newHash["ironing_type"] = Str(<<"top surface">>)

C11_WitnessStored ==
  /\ call.op = "mainLoop"
  /\ call.parameter = "ironing_type"
  /\ status.toVar.ironing # Bool(TRUE)
  /\ newHash["ironing_type"] = Str(<<"top surface">>)

\* the source enabled dynamic overhang speeds: the setting is present and on
SourceEnabledOverhangs ==
  sourceIni["enable_dynamic_overhang_speeds"]
    \notin {Undefined, EmptyStr, Str(<<"0">>)}

\* the threshold t(i) of the source, '' when it has none
Threshold(i) ==
  IF status.slicerFlavor = Str(<<"SuperSlicer">>)
    THEN LET t == Split(OrElse(sourceIni["dynamic_overhang_speeds"],
                               EmptyStr).val, ",")
         IN IF i + 1 <= Len(t) THEN Str(t[i + 1]) ELSE EmptyStr
    ELSE OrElse(sourceIni[<<"overhang_speed_0", "overhang_speed_1",
                            "overhang_speed_2", "overhang_speed_3">>[i + 1]],
                EmptyStr)

\* C12: calculatePrintParams always writes enable_overhang_speed, '1' if the
\* source enabled dynamic overhang speeds and '0' otherwise; when enabled
\* overhang_k_4_speed = t(4-k) for k = 1..4 ('' for a missing threshold);
\* when not enabled none of the four overhang_k_4_speed keys is written.
C12_OverhangsFollowSourceSetting ==
  call.op = "calculatePrintParams" =>
    /\ newHash["enable_overhang_speed"] =
         IF SourceEnabledOverhangs THEN Str(<<"1">>) ELSE Str(<<"0">>)
    /\ SourceEnabledOverhangs =>
         \A k \in 1..4 : newHash[OverhangSpeedKeys[k]] = Threshold(4 - k)
    /\ ~SourceEnabledOverhangs =>
         \A k \in 1..4 : newHash[OverhangSpeedKeys[k]] = Undefined

\* what the code does: the same, with a setting of '0' counted as enabled
C12_OverhangsFollowTruthiness ==
  call.op = "calculatePrintParams" =>
    /\ newHash["enable_overhang_speed"] =
         IF Truthy(sourceIni["enable_dynamic_overhang_speeds"])
           THEN Str(<<"1">>) ELSE Str(<<"0">>)
    /\ Truthy(sourceIni["enable_dynamic_overhang_speeds"]) =>
         \A k \in 1..4 : newHash[OverhangSpeedKeys[k]] = Threshold(4 - k)
    /\ ~Truthy(sourceIni["enable_dynamic_overhang_speeds"]) =>
         \A k \in 1..4 : newHash[OverhangSpeedKeys[k]] = Undefined

\* r is written with at most one decimal place and no trailing '.0', and no
\* number with one decimal place is nearer to v
IsRoundingOf(r, v) ==
  LET a == ParseFloat(r)
      b == ParseFloat(v)
      s == IF a.scale > b.scale THEN a.scale ELSE b.scale
  IN /\ ~a.nan /\ ~b.nan
     /\ a.scale <= 1
     /\ r = NumToStr(a)
     /\ 20 * Abs(a.num * Pow10(s - a.scale) - b.num * Pow10(s - b.scale))
          <= Pow10(s)

\* what convertParams yields for the i-th parameter of speedSequence inside
\* the loop, the earlier iterations having run
YieldedInLoop(i) ==
  ConvertParams(SpeedSequence[i], sourceIni,
                SpeedLoop(i - 1, sourceIni,
                          [status |-> status, newHash |-> newHash]).status,
                SpeedLoop(i - 1, sourceIni,
                          [status |-> status, newHash |-> newHash]).newHash,
                Undefined).ret

\* the value the claim gives the target key for a yielded string v
SpeedWritten(written, v) ==
  IF IsDecimal(v) THEN IsRoundingOf(written, v) ELSE written = v

\* C13: for every parameter p of speedSequence, a call of
\* calculatePrintParams leaves newHash[speedParams[p]] untouched when the
\* source has no value for p; otherwise, when convertParams yields a
\* non-empty string v, it writes v rounded to one decimal place, a trailing
\* '.0' stripped, if v is a plain decimal, and v itself if it is not.
C13_SpeedLoopRoundsPlainDecimals ==
  [][call'.op = "calculatePrintParams" =>
       \A i \in 1..Len(SpeedSequence) :
         /\ ~Truthy(sourceIni[SpeedSequence[i]]) =>
              newHash'[SpeedParams(SpeedSequence[i])]
                = newHash[SpeedParams(SpeedSequence[i])]
         /\ (Truthy(sourceIni[SpeedSequence[i]])
               /\ Truthy(YieldedInLoop(i))
               /\ YieldedInLoop(i).type = "string") =>
              SpeedWritten(newHash'[SpeedParams(SpeedSequence[i])],
                           YieldedInLoop(i))]_vars

\* '60.123' was rounded to '60.1'
C13_Witness ==
  /\ call.op = "calculatePrintParams"
  /\ sourceIni["perimeter_speed"] = Str(<<"6", "0", ".", "1", "2", "3">>)
  /\ newHash[SpeedParams("perimeter_speed")] = Str(<<"6", "0", ".", "1">>)

\* '50' lost no digit and gained no '.0'
C13_WitnessWhole ==
  /\ call.op = "calculatePrintParams"
  /\ sourceIni["support_material_speed"] = Str(<<"5", "0">>)
  /\ newHash[SpeedParams("support_material_speed")] = Str(<<"5", "0">>)

\* a value that is no plain decimal was written as it is
C13_WitnessNotDecimal ==
  /\ call.op = "calculatePrintParams"
  /\ sourceIni["external_perimeter_speed"] = Str(<<"a">>)
  /\ newHash[SpeedParams("external_perimeter_speed")] = Str(<<"a">>)

\* an empty source value left the target key alone
C13_WitnessNoValue ==
  /\ call.op = "calculatePrintParams"
  /\ sourceIni["gap_fill_speed"] = EmptyStr
  /\ newHash[SpeedParams("gap_fill_speed")] = Undefined
  /\ newHash[SpeedParams("infill_speed")] # Undefined

\* the base a speed-family parameter is a percentage of, for the flavor of
\* the profile; undefined where the flavor converts nothing
SpeedBase(parameter) ==
  LET super == status.slicerFlavor = Str(<<"SuperSlicer">>)
      prusa == status.slicerFlavor = Str(<<"PrusaSlicer">>)
      default == IF super THEN sourceIni["default_speed"] ELSE Undefined
  IN CASE parameter \in {"external_perimeter_speed", "first_layer_speed"}
            -> sourceIni["perimeter_speed"]
       [] parameter = "top_solid_infill_speed"
            -> newHash["internal_solid_infill_speed"]
       [] parameter = "support_material_interface_speed"
            -> sourceIni["support_material_speed"]
       [] parameter = "first_layer_infill_speed" -> sourceIni["infill_speed"]
       [] parameter = "solid_infill_speed"
            -> IF prusa THEN sourceIni["infill_speed"] ELSE default
       [] parameter \in {"perimeter_speed", "support_material_speed",
                         "bridge_speed"}
            -> default
       [] parameter = "infill_speed"
            -> IF super THEN newHash["internal_solid_infill_speed"]
               ELSE Undefined
       [] parameter \in {"small_perimeter_speed", "gap_fill_speed"}
            -> IF super THEN newHash["sparse_infill_speed"] ELSE Undefined

\* the value that is converted: the parameter's own, except that the
\* PrusaSlicer flavor converts first_layer_speed for first_layer_infill_speed
SpeedConverted(parameter) ==
  IF parameter = "first_layer_infill_speed"
       /\ status.slicerFlavor = Str(<<"PrusaSlicer">>)
    THEN sourceIni["first_layer_speed"]
    ELSE sourceIni[parameter]

Missing(v) == v \in {Undefined, EmptyStr}

\* a call convertParams(p) on a speed-family parameter with a value returned
SpeedCallReturned(p) ==
  /\ call.op = "convertParams"
  /\ call.parameter = p
  /\ Truthy(sourceIni[p])

\* C14 as stated: for every speed-family parameter and flavor, when the
\* conversion fails (base missing, empty or itself a percentage) or the
\* parameter's value is not a percentage, convertParams returns the
\* parameter's own source value.
C14_OwnValuePassesThrough ==
  \A p \in Range(SpeedSequence) :
    (SpeedCallReturned(p)
       /\ \/ Missing(SpeedBase(p))
          \/ IsPercent(SpeedBase(p))
          \/ ~IsPercent(sourceIni[p]))
      => ret = sourceIni[p]

\* C14 amended: with x the value that is converted (the parameter's own,
\* but first_layer_speed for first_layer_infill_speed under PrusaSlicer):
\* when the base or x is missing or empty, the parameter's own value is
\* returned; otherwise, when x is not a percentage, x is returned; otherwise,
\* when the base is itself a percentage, the own value is returned.
C14_ConvertedValuePassesThrough ==
  \A p \in Range(SpeedSequence) :
    SpeedCallReturned(p) =>
      IF Missing(SpeedBase(p)) \/ Missing(SpeedConverted(p))
        THEN ret = sourceIni[p]
      ELSE IF ~IsPercent(SpeedConverted(p)) THEN ret = SpeedConverted(p)
      ELSE IsPercent(SpeedBase(p)) => ret = sourceIni[p]

\* first_layer_infill_speed '40' under PrusaSlicer returned first_layer_speed
C14_Witness ==
  /\ SpeedCallReturned("first_layer_infill_speed")
  /\ status.slicerFlavor = Str(<<"PrusaSlicer">>)
  /\ sourceIni["first_layer_infill_speed"] = Str(<<"4", "0">>)
  /\ sourceIni["first_layer_speed"] = Str(<<"3", "0">>)
  /\ sourceIni["infill_speed"] = Str(<<"8", "0">>)
  /\ ret = Str(<<"3", "0">>)

\* a percentage of a base that is a percentage came back as it was
C14_WitnessPercentBase ==
  /\ SpeedCallReturned("external_perimeter_speed")
  /\ IsPercent(sourceIni["perimeter_speed"])
  /\ IsPercent(sourceIni["external_perimeter_speed"])
  /\ ret = sourceIni["external_perimeter_speed"]

\* a percentage of a base taken from newHash was converted
C14_WitnessHashBase ==
  /\ SpeedCallReturned("top_solid_infill_speed")
  /\ IsPercent(sourceIni["top_solid_infill_speed"])
  /\ newHash["internal_solid_infill_speed"] = Str(<<"7", "0", ".", "5">>)
  /\ ret = Str(<<"3", "5", ".", "2", "5">>)

\* an argument that is undefined or ''
NoArgument(v) == v \in {Undefined, EmptyStr}

\* str is the canonical string of the number x * y / 100
IsPercentageOf(str, x, y) ==
  IF x.nan \/ y.nan THEN str = Str(<<"NaN">>)
  ELSE /\ ~ParseFloat(str).nan
       /\ str = NumToStr(ParseFloat(str))
       /\ ParseFloat(str).num * 100 * Pow10(x.scale + y.scale)
            = x.num * y.num * Pow10(ParseFloat(str).scale)

C16_WitnessPercentBase ==
  /\ call.op = "percentToMm"
  /\ args = <<Str(<<"5", "0", "%">>), Str(<<"5", "0", "%">>)>>
  /\ ret = Undefined

\* percentToMm('50%', '5') gave '5': the pass-through comes first
C16_WitnessPassThrough ==
  /\ call.op = "percentToMm"
  /\ args = <<Str(<<"5", "0", "%">>), Str(<<"5">>)>>
  /\ ret = Str(<<"5">>)

\* str is the canonical string of the number x / y * 100, followed by '%'
IsRatioOf(str, x, y) ==
  IF x.nan \/ y.nan THEN str = Str(<<"NaN", "%">>)
  ELSE /\ IsPercent(str)
       /\ RemovePercent(str) = NumToStr(ParseFloat(str))
       /\ ParseFloat(str).num * y.num * Pow10(x.scale)
            = x.num * 100 * Pow10(ParseFloat(str).scale + y.scale)

C17_WitnessRatio ==
  /\ call.op = "mmToPercent"
  /\ args = <<Number(Num(10, 0)), Str(<<"5">>)>>
  /\ ret = Str(<<"5", "0", "%">>)

\* mmToPercent('0', '5') gave no result
C17_WitnessZero ==
  /\ call.op = "mmToPercent"
  /\ args = <<Str(<<"0">>), Str(<<"5">>)>>
  /\ ret = Undefined

\* the count of a type for the profile detectIniType was given
CountOf(i) == TypeCount(IniTypeOrder[i], args[1])

\* C15: for a profile without an ini_type field, detectIniType returns
\* undefined if and only if every type's count is below 10; otherwise it
\* returns a type whose count is maximal, the first such type in the order
\* of the parameter map's keys.
C15_DetectsFirstMaximalType ==
  (call.op = "detectIniType" /\ args[1]["ini_type"] = Undefined) =>
    /\ ret = Undefined <=> \A i \in 1..Len(IniTypeOrder) : CountOf(i) < 10
    /\ ret # Undefined =>
         \E i \in 1..Len(IniTypeOrder) :
           /\ ret = Str(<<IniTypeOrder[i]>>)
           /\ \A j \in 1..Len(IniTypeOrder) : CountOf(j) <= CountOf(i)
           /\ \A j \in 1..(i - 1) : CountOf(j) < CountOf(i)

\* print and filament tie at 10 matches each: print, the earlier key, wins
C15_Witness ==
  /\ call.op = "detectIniType"
  /\ args[1]["ini_type"] = Undefined
  /\ CountOf(1) = 10 /\ CountOf(2) = 10 /\ CountOf(3) < 10
  /\ ret = Str(<<"print">>)

\* a later type with more matches wins
C15_WitnessLaterType ==
  /\ call.op = "detectIniType"
  /\ args[1]["ini_type"] = Undefined
  /\ CountOf(1) = 10 /\ CountOf(3) = 11
  /\ ret = Str(<<"printer">>)

\* nine matches of every type give nothing
C15_WitnessBelowThreshold ==
  /\ call.op = "detectIniType"
  /\ args[1]["ini_type"] = Undefined
  /\ CountOf(1) = 9 /\ CountOf(2) = 9 /\ CountOf(3) = 9
  /\ ret = Undefined

\* str is a number written canonically: no sign '+', no leading or trailing
\* zeros beyond the needed ones
IsNormalized(str) ==
  ~ParseFloat(str).nan /\ str = NumToStr(ParseFloat(str))

\* C18: for filament_max_volumetric_speed in a filament profile, a numeric
\* source value greater than zero is returned as a normalized numeric
\* string; otherwise (zero, negative or non-numeric) the result is the
\* defaultMVS entry of the source filament_type, un-aliased, or '15' when
\* filament_type is absent or not in the table.
C18_VolumetricSpeedOrMaterialDefault ==
  (Converted("filament_max_volumetric_speed")
     /\ status.iniType = Str(<<"filament">>)
     /\ HasValue("filament_max_volumetric_speed")) =>
    IF Positive(ParseFloat(sourceIni["filament_max_volumetric_speed"]))
      THEN /\ IsNormalized(ret)
           /\ ParseFloat(ret)
                = ParseFloat(sourceIni["filament_max_volumetric_speed"])
    ELSE IF sourceIni["filament_type"] # Undefined
            /\ DefaultMVS(sourceIni["filament_type"]) # Undefined
      THEN ret = DefaultMVS(sourceIni["filament_type"])
    ELSE ret = Str(<<"1", "5">>)

\* '0' with filament_type PET gave the default of PET, not that of PETG
C18_Witness ==
  /\ Converted("filament_max_volumetric_speed")
  /\ status.iniType = Str(<<"filament">>)
  /\ sourceIni["filament_max_volumetric_speed"] = Str(<<"0">>)
  /\ sourceIni["filament_type"] = Str(<<"PET">>)
  /\ ret = Str(<<"1", "0">>)

\* '15.0' was normalized to '15'
C18_WitnessNormalized ==
  /\ Converted("filament_max_volumetric_speed")
  /\ status.iniType = Str(<<"filament">>)
  /\ sourceIni["filament_max_volumetric_speed"] = Str(<<"1", "5", ".", "0">>)
  /\ ret = Str(<<"1", "5">>)

\* a non-numeric value and an unknown material gave '15'
C18_WitnessUnknownMaterial ==
  /\ Converted("filament_max_volumetric_speed")
  /\ status.iniType = Str(<<"filament">>)
  /\ sourceIni["filament_max_volumetric_speed"] = Str(<<"a", "b", "c">>)
  /\ sourceIni["filament_type"] = Str(<<"XYZ">>)
  /\ ret = Str(<<"1", "5">>)

\* the source flag support_material_auto is enabled: present and on
SourceEnabledSupportAuto ==
  sourceIni["support_material_auto"] \notin {Undefined, EmptyStr, Str(<<"0">>)}

\* a call convertParams('support_material_style') that reached its rule
SupportStyleConverted ==
  /\ Converted("support_material_style")
  /\ HasValue("support_material_style")
  /\ Convertible(status.iniType)
  /\ HasTypeMap(status.iniType)

\* C19: for support_material_style with a value that is a key of
\* supportStyles with pair (type, style), convertParams writes
\* newHash['support_type'] = type + '(auto)' if the source flag
\* support_material_auto is enabled and type + '(manual)' otherwise, writes
\* newHash['support_style'] = style, and returns ''; with a value not in the
\* table it returns '' and writes neither key.
C19_SupportTypeFollowsSourceFlag ==
  SupportStyleConverted =>
    /\ ret = EmptyStr
    /\ IF SupportStyles(sourceIni["support_material_style"]) # Undefined
         THEN /\ newHash["support_type"]
                   = Str(<<SupportStyles(sourceIni["support_material_style"]).val[1],
                           "(",
                           IF SourceEnabledSupportAuto THEN "auto" ELSE "manual",
                           ")">>)
              /\ newHash["support_style"]
                   = Str(<<SupportStyles(sourceIni["support_material_style"]).val[2]>>)
         ELSE /\ newHash["support_type"] = Undefined
              /\ newHash["support_style"] = Undefined

\* what the code does: the same, with a flag of '0' counted as enabled
C19_SupportTypeFollowsTruthiness ==
  SupportStyleConverted =>
    /\ ret = EmptyStr
    /\ IF SupportStyles(sourceIni["support_material_style"]) # Undefined
         THEN /\ newHash["support_type"]
                   = Str(<<SupportStyles(sourceIni["support_material_style"]).val[1],
                           "(",
                           IF Truthy(sourceIni["support_material_auto"])
                             THEN "auto" ELSE "manual",
                           ")">>)
              /\ newHash["support_style"]
                   = Str(<<SupportStyles(sourceIni["support_material_style"]).val[2]>>)
         ELSE /\ newHash["support_type"] = Undefined
              /\ newHash["support_style"] = Undefined

\* C20: for extrusion_width in a print profile, convertParams returns the
\* literal '0' when the source value is the empty string, and the source
\* value unchanged otherwise.
C20_EmptyExtrusionWidthBecomesZero ==
  (Converted("extrusion_width")
     /\ status.iniType = Str(<<"print">>)
     /\ sourceIni["extrusion_width"] # Undefined) =>
    ret = IF sourceIni["extrusion_width"] = EmptyStr THEN Str(<<"0">>)
          ELSE sourceIni["extrusion_width"]

\* what the code does: no result for the empty string
C20_EmptyExtrusionWidthGivesNothing ==
  (Converted("extrusion_width")
     /\ status.iniType = Str(<<"print">>)
     /\ sourceIni["extrusion_width"] # Undefined) =>
    ret = IF sourceIni["extrusion_width"] = EmptyStr THEN Undefined
          ELSE sourceIni["extrusion_width"]

\* the place of a parameter in speedSequence
IndexOf(parameter) ==
  CHOOSE i \in 1..Len(SpeedSequence) : SpeedSequence[i] = parameter

\* the speed parameters whose conversion reads an output key, each with the
\* parameter that writes that key, for the flavor of the profile
ReadsOutputOf ==
  {<<"top_solid_infill_speed", "solid_infill_speed">>}
    \cup (IF status.slicerFlavor = Str(<<"SuperSlicer">>)
            THEN {<<"infill_speed", "solid_infill_speed">>,
                  <<"small_perimeter_speed", "infill_speed">>,
                  <<"gap_fill_speed", "infill_speed">>}
            ELSE {})

\* newHash as the iteration of the given parameter finds it in a pass that
\* starts in this state
HashFoundBy(parameter) ==
  SpeedLoop(IndexOf(parameter) - 1, sourceIni,
            [status |-> status, newHash |-> newHash]).newHash

\* C22: within one calculatePrintParams pass, every speed parameter whose
\* conversion reads an output key is converted after the parameter that
\* writes that key, so when the writing parameter is present in the source
\* the base read is the value written earlier in the same pass.
C22_ProducersPrecedeConsumers ==
  [][call'.op = "calculatePrintParams" =>
       \A pair \in ReadsOutputOf :
         (Truthy(sourceIni[pair[1]]) /\ Truthy(sourceIni[pair[2]])) =>
           /\ IndexOf(pair[2]) < IndexOf(pair[1])
           /\ HashFoundBy(pair[1])[SpeedParams(pair[2])]
                = newHash'[SpeedParams(pair[2])]
           /\ newHash'[SpeedParams(pair[2])] # Undefined]_vars

\* top_solid_infill_speed '50%' became half of the internal_solid_infill_speed
\* written by the same pass
C22_Witness ==
  /\ call.op = "calculatePrintParams"
  /\ sourceIni["solid_infill_speed"] = Str(<<"7", "0", ".", "4", "6">>)
  /\ sourceIni["top_solid_infill_speed"] = Str(<<"5", "0", "%">>)
  /\ newHash["internal_solid_infill_speed"] = Str(<<"7", "0", ".", "5">>)
  /\ newHash["top_surface_speed"] = Str(<<"3", "5", ".", "3">>)

\* SuperSlicer: gap_fill_speed '150%' of the sparse_infill_speed just written
C22_WitnessSparse ==
  /\ call.op = "calculatePrintParams"
  /\ status.slicerFlavor = Str(<<"SuperSlicer">>)
  /\ sourceIni["infill_speed"] = Str(<<"8", "0">>)
  /\ sourceIni["gap_fill_speed"] = Str(<<"1", "5", "0", "%">>)
  /\ newHash["sparse_infill_speed"] = Str(<<"8", "0">>)
  /\ newHash["gap_infill_speed"] = Str(<<"1", "2", "0">>)

\* the four parameters behind wall_infill_order and ironing_type
OrderParams ==
  <<"external_perimeters_first", "infill_first", "ironing", "ironing_type">>

\* the main loop's step for one parameter: convertParams, then the store
\* under the mapped key
Stored(parameter, r) ==
  [status |-> r.status, newHash |-> StoreConverted(parameter, r)]

\* the main loop over OrderParams from place i on, in the order perm
RECURSIVE ConvertInOrder(_, _, _)
ConvertInOrder(perm, i, state) ==
  IF i > Len(OrderParams) THEN state
  ELSE ConvertInOrder(perm, i + 1,
         Stored(OrderParams[perm[i]],
                ConvertParams(OrderParams[perm[i]], sourceIni, state.status,
                              state.newHash, Undefined)))

\* calculatePrintParams on what the main loop left
Calculated(state) ==
  CalculatePrintParams(sourceIni, state.status, state.newHash).newHash

\* the two derived values of a converted profile
DerivedOf(hash) == <<hash["wall_infill_order"], hash["ironing_type"]>>

\* the two derived values after the four parameters went through the main
\* loop in the order perm and calculatePrintParams ran, all from this state
DerivedAfter(perm) ==
  DerivedOf(Calculated(ConvertInOrder(perm, 1,
                         [status |-> status, newHash |-> newHash])))

\* the orders in which the four parameters can stand in a profile
Orders ==
  {perm \in [1..4 -> 1..4] : \A i, j \in 1..4 : perm[i] = perm[j] => i = j}

\* every order gives the derived values d
EveryOrderGives(d) == \A perm \in Orders : DerivedAfter(perm) = d

\* C29: for a print profile, wall_infill_order and ironing_type written by
\* calculatePrintParams are the same for every order in which
\* external_perimeters_first, infill_first, ironing and ironing_type were
\* converted beforehand from the same state.
C29_DerivedValuesIgnoreOrder ==
  status.iniType = Str(<<"print">>) =>
    EveryOrderGives(DerivedAfter([i \in 1..4 |-> i]))

\* all four were converted and calculatePrintParams wrote the derived values
C29_Witness ==
  /\ call.op = "calculatePrintParams"
  /\ \A i \in 1..4 : Truthy(sourceIni[OrderParams[i]])
  /\ status.toVar.externalPerimetersFirst = Bool(TRUE)
  /\ status.toVar.infillFirst = Bool(TRUE)
  /\ status.toVar.ironing = Bool(TRUE)
  /\ status.ironingType = Str(<<"top surface">>)
  /\ newHash["wall_infill_order"] = Str(<<"infill/outer wall/inner wall">>)
  /\ newHash["ironing_type"] = Str(<<"top surface">>)

\* C30: a source value of '0' (disabled) does not turn a combination flag
\* on: with external_perimeters_first = 0 and infill_first = 0 a print
\* profile ends with wall_infill_order 'inner wall/outer wall/infill', and
\* with ironing = 0 and an ironing_type value it ends with ironing_type
\* 'no ironing'.
C30_ZeroLeavesFlagOff ==
  (call.op = "calculatePrintParams" /\ status.iniType = Str(<<"print">>)) =>
    /\ (sourceIni["external_perimeters_first"] = Str(<<"0">>)
          /\ sourceIni["infill_first"] = Str(<<"0">>))
         => newHash["wall_infill_order"] = Str(<<"inner wall/outer wall/infill">>)
    /\ (sourceIni["ironing"] = Str(<<"0">>)
          /\ Truthy(sourceIni["ironing_type"]))
         => newHash["ironing_type"] = Str(<<"no ironing">>)

\* the profile types that have an output directory
OutputIniTypes == {Str(<<"print">>), Str(<<"filament">>), Str(<<"printer">>)}

\* no output file was written for the input file f
NothingWrittenFor(f) ==
  \A iniType \in OutputIniTypes :
    outputFiles[OutputPath(iniType, f.name)] \in {Undefined, ExistingJson}

\* C21: an input file without a '# generated by' header naming PrusaSlicer
\* or SuperSlicer is never converted, wherever it stands in the run: its
\* record has success 'NO' and error 'Unsupported slicer', and no output
\* file is written for it.
C21_HeaderlessFileNeverConverted ==
  \A i \in 1..Len(convertedFiles) :
    inputFiles[i].slicerFlavor = Undefined =>
      /\ convertedFiles[i].success = Str(<<"NO">>)
      /\ convertedFiles[i].error = Str(<<"Unsupported slicer">>)
      /\ convertedFiles[i].outputFile = EmptyStr
      /\ NothingWrittenFor(inputFiles[i])

\* the parameter loop of a profile is about to start
ConversionStarts == call.op = "readFile" /\ args = << >> /\ ~exited

\* C23: a KEEP/DISCARD answer in compatiblePrintersCondition or
\* compatiblePrintsCondition is carried to the next profile only if the
\* operator opted to apply it to all remaining profiles; otherwise the slot
\* is undecided again when the next profile is converted.
C23_ConditionAnswerCarriedOnlyIfApplied ==
  ConversionStarts =>
    \A slot \in Slots :
      status.value[slot] # Undefined => asked.applied[slot] # Undefined

\* C24: whenever the parameter loop of a profile starts, the combination
\* flags, the ironing type and the profile name are undefined, the maximum
\* temperature is 0 and newHash is empty, whatever the profiles before it
\* left behind.
C24_ConversionStartsClean ==
  ConversionStarts =>
    /\ status.toVar.externalPerimetersFirst = Undefined
    /\ status.toVar.infillFirst = Undefined
    /\ status.toVar.ironing = Undefined
    /\ status.ironingType = Undefined
    /\ status.profileName = Undefined
    /\ status.maxTemp = Num(0, 0)
    /\ \A key \in OutKeys : newHash[key] = Undefined

\* a second profile starts after a print profile whose flags, ironing type
\* and profile name were set and went into its output
C24_Witness ==
  /\ ConversionStarts
  /\ index = 1
  /\ convertedFiles[1].success = Str(<<"YES">>)
  /\ outputFiles[convertedFiles[1].outputFile]["wall_infill_order"]
       = Str(<<"outer wall/inner wall/infill">>)
  /\ outputFiles[convertedFiles[1].outputFile]["ironing_type"]
       = Str(<<"top surface">>)
  /\ outputFiles[convertedFiles[1].outputFile]["name"] = Str(<<"My profile">>)

\* a second profile starts after a filament profile with temperature 215
C24_WitnessMaxTemp ==
  /\ ConversionStarts
  /\ index = 1
  /\ convertedFiles[1].success = Str(<<"YES">>)
  /\ outputFiles[convertedFiles[1].outputFile]["nozzle_temperature_range_high"]
       = Str(<<"2", "1", "5">>)

\* a profile starts after one that was skipped or failed
C24_WitnessFailure ==
  /\ ConversionStarts
  /\ index = 1
  /\ convertedFiles[1].success = Str(<<"NO">>)

\* C25: resetLoop clears exactly the sticky values marked for reset: for
\* every key k of status.reset, if reset[k] was true then value[k] is
\* undefined and reset[k] false afterwards, and if reset[k] was false then
\* value[k] is unchanged; status.iniType is cleared unless interactiveMode
\* is true, and then kept.
C25_ResetLoopClearsMarkedValues ==
  [][call'.op = "logFileStatus" =>
       /\ \A k \in StickyKeys :
            IF status.reset[k]
              THEN status'.value[k] = Undefined /\ ~status'.reset[k]
              ELSE status'.value[k] = status.value[k]
       /\ status'.iniType = IF status.interactiveMode THEN status.iniType
                            ELSE Undefined]_vars

\* after resetLoop the nozzle size, chosen for this file only, is gone and
\* the condition answer, never marked, is still there
C25_Witness ==
  /\ call.op = "logFileStatus"
  /\ \E i \in 1..Len(asked.events) :
       /\ asked.events[i].decision = "nozzleSize"
       /\ asked.events[i].prompt = "yesToAll"
       /\ asked.events[i].reply = JUST
  /\ status.value.nozzleSize = Undefined
  /\ status.value.compatiblePrintersCondition = KEEP
  /\ status.iniType = Undefined

\* resetLoop in interactive mode: the profile type chosen is still there
C25_WitnessInteractive ==
  /\ call.op = "logFileStatus"
  /\ status.interactiveMode
  /\ status.iniType = Str(<<"printer">>)

\* the decisions that go through askYesToAll
Decisions == {"onExisting", "nozzleSize", "physicalPrinter", "inherits"}

\* C26: for onExisting, nozzleSize, physicalPrinter and inherits, once the
\* operator answered 'ALL REMAINING PROFILES' the choice (also '<NONE>')
\* stays decided for the rest of the run and its prompt is not shown for any
\* later profile; askYesToAll asks nothing when no profile remains.
C26_AppliedChoiceIsNotAskedAgain ==
  /\ \A d \in Decisions :
       asked.applied[d] # Undefined =>
         /\ status.value[d] # Undefined
         /\ \A i \in 1..Len(asked.events) :
              (asked.events[i].decision = d /\ asked.events[i].prompt = "choice")
                => asked.events[i].file <= asked.applied[d].file
  /\ \A i \in 1..Len(asked.events) :
       asked.events[i].prompt = "yesToAll"
         => asked.events[i].file < Len(inputFiles)

\* C27: a profile is recorded as 'MERGED' only if its output file existed
\* before and the converted values were merged into it, the existing pairs
\* kept; a profile whose output file did not exist is recorded as 'YES'.
C27_MergedOnlyIntoExistingFile ==
  [][(call'.op = "convertFile" /\ args' # << >>) =>
       /\ args'[4] = Str(<<"MERGED">>) =>
            /\ outputFiles[args'[2]] # Undefined
            /\ \A key \in OutKeys :
                 outputFiles[args'[2]][key] # Undefined =>
                   outputFiles'[args'[2]][key] = outputFiles[args'[2]][key]
       /\ (outputFiles[args'[2]] = Undefined /\ outputFiles'[args'[2]] # Undefined)
            => args'[4] = Str(<<"YES">>)]_vars

\* the profile type of an input file when main was given the files
TypeOf(f) == DetectIniType(f.detect)

\* C28: for every input file the main loop appends exactly one record and
\* goes on with the next file; a file whose profile type is not print,
\* filament or printer, none being detectable or ini_type naming another,
\* is recorded as failed and does not end the run.
C28_OneRecordPerFile ==
  /\ call.op # "error"
  /\ AtLoopHead => Len(convertedFiles) = index
  /\ call.op = "exitWithConversionSummary"
       => Len(convertedFiles) = Len(inputFiles)
  /\ \A i \in 1..Len(convertedFiles) :
       (~status.interactiveMode /\ ~IsOutputIniType(TypeOf(inputFiles[i])))
         => convertedFiles[i].success = Str(<<"NO">>)

====
